---- MODULE Spec2Model ----
(***************************************************************************)
(* A model of the gateway connection (src/src/connection.rs), the shared   *)
(* sender (src/src/io.rs), the REST rate limiters (src/src/ratelimit.rs    *)
(* and src/src/ratelimit/rest.rs) and the REST request primitive           *)
(* (src/src/lib.rs) of discord-tokio.                                      *)
(*                                                                         *)
(* Eight specifications share the module:                                  *)
(*   Spec        the connection's main task, its heartbeat tasks and the   *)
(*               writer tasks of its shared senders                        *)
(*   SinkSpec    one SharedSink with its clones and its writer task        *)
(*   RateSpec    the global bucket of RateLimits::check with its callers   *)
(*   BucketSpec  the buckets of either rate limiter under pre-checks and   *)
(*               post-updates                                              *)
(*   RouteSpec   one route bucket of ratelimit/rest.rs with the callers of *)
(*               RateLimits::check                                         *)
(*   RestSpec    calls of Discord::request                                 *)
(*   ConnectSpec one call of Connection::connect with its tasks, which     *)
(*               the runtime schedules fairly                              *)
(*   ResumeSpec  the connection up to the end of a resume, which the       *)
(*               caller awaits                                             *)
(***************************************************************************)
EXTENDS Integers, Sequences, FiniteSets, TLC

\* ------------------------------------------------------------------ bounds

\* Websockets the connection may open in one behaviour (the initial connect,
\* every resume and every reconnect attempt opens one).
MaxWs == 2

\* Sequence numbers an inbound dispatch may carry: 0..MaxSeq.
MaxSeq == 1

\* Items sent into one SharedSink in one behaviour.
MaxFrames == 4

\* The clock of the rate limiter: ticks in one second, the last tick of a
\* behaviour, and the callers that may be asleep at once.
Second == 2
MaxTick == 3
MaxParked == 2

\* Calls of RateLimits::check in one behaviour of the route buckets.
MaxChecks == 2

\* Callers of RateLimits::check in one behaviour of a route with its callers.
MaxCalls == 3

\* --------------------------------------------------------------- constants

\* GlobalLimitCounter::default(): limit.
GlobalLimit == 50

\* LimitCounter::default(): limit and remaining.
RouteLimit == 5

\* ------------------------------------------------------------- vocabulary

WsIds == 1..MaxWs
Seqs == 0..MaxSeq
SessionIds == {"S1", "S2"}

Frame(op, seq, ev, sid) == [op |-> op, seq |-> seq, ev |-> ev, sid |-> sid]

NoFrame == Frame("none", 0, "-", "-")

\* GatewayEvent::Dispatch(seq, event), the event being READY (with a session
\* id), RESUMED or any other event.
Dispatches ==
    {Frame("Dispatch", s, "READY", i) : s \in Seqs, i \in SessionIds}
        \cup {Frame("Dispatch", s, e, "-") : s \in Seqs, e \in {"RESUMED", "MESSAGE"}}

\* The other GatewayEvent variants.
Controls ==
    {Frame(o, 0, "-", "-") : o \in {"Hello", "HeartbeatAck", "Reconnect", "InvalidateSession"}}
        \cup {Frame("Heartbeat", s, "-", "-") : s \in Seqs}

\* What a read of the websocket yields instead of a frame: a websocket error
\* (or the end of the stream), a close with code 4006, a close with another
\* code, or any other error (a frame that does not decode).
ReadErrors ==
    {Frame(o, 0, "-", "-") : o \in {"ErrWebSocket", "ErrClosed4006", "ErrClosed", "ErrJson"}}

Inbound == Dispatches \cup Controls \cup ReadErrors

\* Outbound frames.
Identify == Frame("Identify", 0, "-", "-")
Resume(seq, sid) == Frame("Resume", seq, "-", sid)
HeartbeatFrame(d) == Frame("Heartbeat", d, "-", "-")

\* ------------------------------------------------------------------ state

VARIABLES
    pc,          \* where the caller's task stands
    conn,        \* the Connection the caller holds (id = 0: none)
    ecaller,     \* establish_connection: called by "connect" or by "reconnect"
    attempt,     \* reconnect: the handshake attempt running (1, 2, 3)
    ew,          \* establish_connection: the websocket of the running attempt
    rw,          \* resume: the websocket it opened
    estIdents,   \* establish_connection: the Identify frames submitted so far
    wsCount,     \* websockets opened so far
    closed,      \* websockets shut down by raw_shutdown
    unused,      \* connections dropped by the caller or replaced by a reconnect
    wst,         \* per SharedSink writer task: "none", "run", "done"
    chan,        \* per writer: the unbounded channel of (frame, reply slot)
    handles,     \* per writer: the live SharedSink handles (channel senders)
    mainReply,   \* the reply slot of the caller task's pending send
    hbst,        \* per heartbeat task: "none", "select", "flushing", "done", "panicked"
    hbseq,       \* per heartbeat task: its local last_sequence
    hbsends,     \* per heartbeat task: reply slots of its handle polled to completion
    seqchan,     \* per heartbeat task: its sequence channel
    shutdown,    \* per heartbeat task: its shutdown oneshot: "open", "sent", "dropped"
    panicAt,     \* where the caller's task panicked
    failure,     \* recv_event: the read that made it recover ("-": none)
    gurl,        \* the `?v=` suffixes of the connection's ReconnectData::url
    opened,      \* the `?v=` suffixes of the URL of the websocket opened last
    naps,        \* reconnect: the one-second sleeps it has made so far
    obs          \* what the step just taken read, wrote and returned

connVars == <<pc, conn, ecaller, attempt, ew, rw, estIdents, wsCount, closed, unused, wst,
              chan, handles, mainReply, hbst, hbseq, hbsends, seqchan, shutdown, panicAt,
              failure, gurl, opened, naps, obs>>

\* One SharedSink on its own, with its clones and its writer task.
VARIABLES
    sq,          \* the unbounded channel of the writer task
    shandles,    \* the live handles that hold a channel sender
    sclosed,     \* the live handles whose channel sender poll_close has taken
    swst,        \* the writer task: "run", "done"
    submitted,   \* every item sent into the channel, in the order of arrival
    replies,     \* per item of submitted, its reply slot: "pending", "ok",
                 \* "err", or "taken" once the handle's poll has had its value
    written,     \* every item the writer has sent on the sink, in order
    flushed      \* what the poll_flush of the step just taken returned

sinkVars == <<sq, shandles, sclosed, swst, submitted, replies, written, flushed>>

\* The global bucket of RateLimits, its clock and its callers.
VARIABLES
    now,               \* the clock, in ticks
    requests_made,     \* GlobalLimitCounter::requests_made
    started_counting,  \* GlobalLimitCounter::started_counting, in ticks
    parked,            \* callers asleep, counted by the tick they sleep until
    direct,            \* requests issued without a sleep, counted by tick:
                       \* direct[1] at the tick now, direct[2] one tick ago, ...
    issued,            \* requests issued on RoutePath, slept for or not, counted
                       \* by the tick of their issue
    woken              \* callers whose sleep is over, counted by the tick they
                       \* slept until

rateVars == <<now, requests_made, started_counting, parked, direct, issued, woken>>

\* The REST rate limiter's buckets. Two implementations are in the source: the
\* one the REST core uses (src/src/ratelimit.rs) and its rewrite
\* (src/src/ratelimit/rest.rs). A build has one of them under the name
\* ratelimit; family says which.
VARIABLES
    family,      \* "rest" (ratelimit/rest.rs) or "legacy" (ratelimit.rs)
    routes,      \* rest.rs RateLimits::routes: path -> LimitCounter or NoCounter
    nchecks,     \* calls of RateLimits::check made so far
    lglobal,     \* ratelimit.rs RateLimits::global: a RateLimit
    endpoints,   \* ratelimit.rs RateLimits::endpoints: path -> RateLimit or NoCounter
    upd          \* what the limiter call of the step just taken was given and returned

bucketVars == <<family, routes, nchecks, lglobal, endpoints, upd>>

\* One call of Discord::request (src/src/lib.rs).
VARIABLES
    rpc,         \* position of the call
    rurl,        \* the path requested
    sends,       \* HTTP sends made by the call so far
    resp,        \* the response (or transport error) of the last send
    first,       \* the response the awaited post_update was given
    resent,      \* HTTP sends made after that post_update returned true
    elapsed,     \* milliseconds the call has slept
    rret,        \* what the call returned
    locked       \* the Mutex of RateLimits whose guard the call holds while
                 \* it is suspended: "none", "global" or "endpoints"

restVars == <<rpc, rurl, sends, resp, first, resent, elapsed, rret, locked>>

vars == <<connVars, sinkVars, rateVars, bucketVars, restVars>>

\* struct Connection. id names the handshake that built it: its writer task and
\* heartbeat task carry the same number. receiver is the websocket it reads.
Connection(id, receiver, last_sequence, shutdown_heartbeat, session_id) ==
    [id |-> id, receiver |-> receiver, last_sequence |-> last_sequence,
     shutdown_heartbeat |-> shutdown_heartbeat, session_id |-> session_id]

NoConnection == Connection(0, 0, 0, 0, "None")

\* A value returned to the caller: by connect ("ready"), by recv_event
\* ("event", "err"); via tells the path inside recv_event.
Ret(kind, ev, sid, via, err) ==
    [kind |-> kind, ev |-> ev, sid |-> sid, via |-> via, err |-> err]

NoRet == Ret("none", "-", "-", "-", "-")

\* An inbound frame, where it was read and on which websocket.
In(f, at, ws) == [f |-> f, at |-> at, ws |-> ws]

NoIn == In(NoFrame, "-", 0)

\* A frame written to a websocket.
Out(ws, f) == [ws |-> ws, f |-> f]

NoOut == Out(0, NoFrame)

\* The step just taken: the frame it read, the frame it wrote to a websocket,
\* what it returned to the caller, the Status it sent on keepalive_channel,
\* and, when establish_connection returned, its result and the number of
\* Identify frames it had submitted.
Obs(in, out, ret, keepalive, est, idents) ==
    [in |-> in, out |-> out, ret |-> ret, keepalive |-> keepalive, est |-> est,
     idents |-> idents]

Quiet == Obs(NoIn, NoOut, NoRet, "none", "-", 0)

Read(in) == [Quiet EXCEPT !.in = in]

HbAlive(h) == hbst[h] \in {"select", "flushing"}

ConnInit ==
    /\ pc = "est_open"
    /\ conn = NoConnection
    /\ ecaller = "connect"
    /\ attempt = 0
    /\ ew = 0
    /\ rw = 0
    /\ estIdents = 0
    /\ wsCount = 0
    /\ closed = {}
    /\ unused = {}
    /\ wst = [w \in WsIds |-> "none"]
    /\ chan = [w \in WsIds |-> <<>>]
    /\ handles = [w \in WsIds |-> {}]
    /\ mainReply = "none"
    /\ hbst = [w \in WsIds |-> "none"]
    /\ hbseq = [w \in WsIds |-> 0]
    /\ hbsends = [w \in WsIds |-> 0]
    /\ seqchan = [w \in WsIds |-> <<>>]
    /\ shutdown = [w \in WsIds |-> "open"]
    /\ panicAt = "-"
    /\ failure = "-"
    /\ gurl = 0
    /\ opened = 0
    /\ naps = 0
    /\ obs = Quiet

\* ------------------------------------------------- establish_connection

\* build_gateway_url: one more `?v=<version>` suffix on the base it is given.
build_gateway_url(base) == base + 1

\* The base URL establish_connection is called with: the caller's (connect)
\* and the one fetched over REST carry no suffix, the one of reconnect's
\* first two attempts is ReconnectData::url.
BaseUrl == IF ecaller = "reconnect" /\ attempt \in {1, 2} THEN gurl ELSE 0

\* The error a failed read is returned as.
ReadError(f) ==
    CASE f.op = "ErrWebSocket" -> "WebSocket"
      [] f.op \in {"ErrClosed", "ErrClosed4006"} -> "Closed"
      [] OTHER -> "Json"

\* establish_connection as it would be were every frame it does not expect
\* returned as a decoding error.
UnexpectedAsJson(f) == ReadError(f)

\* The error establish_connection returns for a frame it does not expect.
Unexpected(f) == IF f \in ReadErrors THEN ReadError(f) ELSE "Protocol"

\* reconnect as it would be with one attempt on the known URL.
FailPcOneKnown ==
    IF ecaller = "connect" THEN "failed"
    ELSE IF attempt \in {1, 2} THEN "rc_rest"
    ELSE "idle"

\* Where a failed establish_connection leaves its caller: connect() returns the
\* error; reconnect sleeps and tries the known URL a second time, then asks
\* REST for a URL, and returns the error of the third attempt.
FailPc ==
    IF ecaller = "connect" THEN "failed"
    ELSE IF attempt = 1 THEN "est_open"
    ELSE IF attempt = 2 THEN "rc_rest"
    ELSE "idle"

FailRet(err) ==
    IF ecaller = "connect" THEN Ret("err", "-", "-", "connect", err)
    ELSE IF attempt = 3 THEN Ret("err", "-", "-", "reconnect", err)
    ELSE NoRet

\* A failed establish_connection as it would be were its SharedSink handle
\* kept alive on the way out.
EstReturnErrKeepsHandle(in, err, spawned) ==
    /\ obs' = Obs(in, NoOut, FailRet(err), "none", err, estIdents)
    /\ pc' = FailPc
    /\ attempt' = IF ecaller = "connect" \/ attempt = 3 THEN 0 ELSE attempt + 1
    /\ ecaller' = IF attempt = 3 THEN "connect" ELSE ecaller
    /\ handles' = handles
    /\ shutdown' = IF spawned THEN [shutdown EXCEPT ![ew] = "dropped"] ELSE shutdown
    /\ ew' = 0
    /\ estIdents' = 0
    /\ failure' = IF FailPc \in {"idle", "failed"} THEN "-" ELSE failure
    /\ UNCHANGED <<conn, closed, unused>>

\* establish_connection returns Err(err). When the heartbeat task has been
\* spawned, the locals dropped on the way out are the SharedSink handle, the
\* sequence sender and the shutdown sender.
EstReturnErr(in, err, spawned) ==
    /\ obs' = Obs(in, NoOut, FailRet(err), "none", err, estIdents)
    /\ pc' = FailPc
    /\ attempt' = IF ecaller = "connect" \/ attempt = 3 THEN 0 ELSE attempt + 1
    /\ ecaller' = IF attempt = 3 THEN "connect" ELSE ecaller
    /\ handles' = IF spawned THEN [handles EXCEPT ![ew] = @ \ {"main"}] ELSE handles
    /\ shutdown' = IF spawned THEN [shutdown EXCEPT ![ew] = "dropped"] ELSE shutdown
    /\ ew' = 0
    /\ estIdents' = 0
    /\ failure' = IF FailPc \in {"idle", "failed"} THEN "-" ELSE failure
    /\ UNCHANGED <<conn, closed, unused>>

\* mem::forget of a Connection: its SharedSink handle is never dropped.
ForgetHandle(hs) == (hs \ {"main"}) \cup {"leak"}

\* raw_shutdown of the connection a reconnect replaces: the socket is shut
\* down and the value is forgotten, so none of its fields is ever dropped.
raw_shutdown(old) ==
    /\ closed' = closed \cup {old.receiver}
    /\ handles' = [handles EXCEPT ![old.id] = ForgetHandle(@)]
    /\ unused' = unused \cup {old.id}

\* establish_connection returns Ok((Connection, ready)): connect() hands the
\* connection to the caller, reconnect swaps it in place of the old one.
EstReturnOk(in, seq, sid) ==
    /\ pc' = "idle"
    /\ conn' = Connection(ew, ew, seq, ew, sid)
    /\ IF ecaller = "connect"
       THEN /\ obs' = Obs(in, NoOut, Ret("ready", "READY", sid, "connect", "-"), "none",
                          "ok", estIdents)
            /\ UNCHANGED <<closed, handles, unused>>
       ELSE /\ obs' = Obs(in, NoOut, Ret("event", "READY", sid, "reconnect", "-"), "none",
                          "ok", estIdents)
            /\ raw_shutdown(conn)
    /\ attempt' = 0
    /\ ecaller' = "connect"
    /\ ew' = 0
    /\ estIdents' = 0
    /\ failure' = "-"
    /\ UNCHANGED shutdown

\* WebSocket::connect, then the Identify written on the raw sink.
est_open_ok ==
    /\ pc = "est_open"
    /\ wsCount < MaxWs
    /\ wsCount' = wsCount + 1
    /\ ew' = wsCount + 1
    /\ estIdents' = 1
    /\ obs' = [Quiet EXCEPT !.out = Out(wsCount + 1, Identify)]
    /\ pc' = "est_hello"
    /\ UNCHANGED <<conn, ecaller, attempt, rw, closed, unused, wst, chan, handles,
                   mainReply, hbst, hbseq, hbsends, seqchan, shutdown, panicAt, failure>>
    /\ opened' = build_gateway_url(BaseUrl)
    /\ UNCHANGED <<gurl, naps>>
    /\ UNCHANGED <<sinkVars, rateVars, bucketVars, restVars>>

est_open_err ==
    /\ pc = "est_open"
    /\ EstReturnErr(NoIn, "WebSocket", FALSE)
    /\ UNCHANGED <<rw, wsCount, wst, chan, mainReply, hbst, hbseq, hbsends, seqchan,
                   panicAt>>
    /\ gurl' = IF obs'.est = "ok" THEN opened ELSE gurl
    /\ naps' = IF obs'.est = "-" THEN naps
               ELSE IF pc' \in {"est_open", "rc_rest"} THEN naps + 1
               ELSE 0
    /\ UNCHANGED opened
    /\ UNCHANGED <<sinkVars, rateVars, bucketVars, restVars>>

\* The first inbound frame: a Hello spawns the writer task (SharedSink::new)
\* and the heartbeat task, which holds a clone of the shared sender.
est_hello ==
    /\ pc = "est_hello"
    /\ \E f \in Inbound :
        IF f.op = "Hello"
        THEN /\ wst' = [wst EXCEPT ![ew] = "run"]
             /\ handles' = [handles EXCEPT ![ew] = {"main", "hb"}]
             /\ hbst' = [hbst EXCEPT ![ew] = "select"]
             /\ pc' = "est_ready"
             /\ obs' = Read(In(f, "est_hello", ew))
             /\ UNCHANGED <<conn, ecaller, attempt, ew, estIdents, closed, unused, shutdown,
                            failure>>
        ELSE /\ EstReturnErr(In(f, "est_hello", ew), Unexpected(f), FALSE)
             /\ UNCHANGED <<wst, hbst>>
    /\ UNCHANGED <<rw, wsCount, chan, mainReply, hbseq, hbsends, seqchan, panicAt>>
    /\ gurl' = IF obs'.est = "ok" THEN opened ELSE gurl
    /\ naps' = IF obs'.est = "-" THEN naps
               ELSE IF pc' \in {"est_open", "rc_rest"} THEN naps + 1
               ELSE 0
    /\ UNCHANGED opened
    /\ UNCHANGED <<sinkVars, rateVars, bucketVars, restVars>>

\* SharedSink::start_send: the item and its reply slot enter the channel.
StartSend(q, item) == Append(q, item)

\* The frame after the Identify. On READY the future sequence_send.send(seq)
\* is built and dropped without being awaited: nothing enters the channel.
est_ready ==
    /\ pc = "est_ready"
    /\ \E f \in Inbound :
        IF f.op = "Dispatch" /\ f.ev = "READY"
        THEN /\ EstReturnOk(In(f, "est_ready", ew), f.seq, f.sid)
             /\ UNCHANGED <<chan, mainReply>>
        ELSE IF f.op = "InvalidateSession"
        THEN /\ chan' = [chan EXCEPT ![ew] = StartSend(@, [f |-> Identify, from |-> "main"])]
             /\ mainReply' = "pending"
             /\ estIdents' = estIdents + 1
             /\ pc' = "est_flush"
             /\ obs' = Read(In(f, "est_ready", ew))
             /\ UNCHANGED <<conn, ecaller, attempt, ew, closed, unused, handles, shutdown,
                            failure>>
        ELSE /\ EstReturnErr(In(f, "est_ready", ew), Unexpected(f), TRUE)
             /\ UNCHANGED <<chan, mainReply>>
    /\ UNCHANGED <<rw, wsCount, wst, hbst, hbseq, hbsends, seqchan, panicAt>>
    /\ gurl' = IF obs'.est = "ok" THEN opened ELSE gurl
    /\ naps' = IF obs'.est = "-" THEN naps
               ELSE IF pc' \in {"est_open", "rc_rest"} THEN naps + 1
               ELSE 0
    /\ UNCHANGED opened
    /\ UNCHANGED <<sinkVars, rateVars, bucketVars, restVars>>

\* shared_sender.send(identify).await? completes when the writer has replied.
est_flush ==
    /\ pc = "est_flush"
    /\ mainReply \in {"ok", "err"}
    /\ mainReply' = "none"
    /\ IF mainReply = "ok"
       THEN /\ pc' = "est_ready2"
            /\ obs' = Quiet
            /\ UNCHANGED <<conn, ecaller, attempt, ew, estIdents, closed, unused, handles,
                           shutdown, failure>>
       ELSE EstReturnErr(NoIn, "Sink", TRUE)
    /\ UNCHANGED <<rw, wsCount, wst, chan, hbst, hbseq, hbsends, seqchan, panicAt>>
    /\ gurl' = IF obs'.est = "ok" THEN opened ELSE gurl
    /\ naps' = IF obs'.est = "-" THEN naps
               ELSE IF pc' \in {"est_open", "rc_rest"} THEN naps + 1
               ELSE 0
    /\ UNCHANGED opened
    /\ UNCHANGED <<sinkVars, rateVars, bucketVars, restVars>>

\* sequence_send.send(seq).await: the value enters the channel unless the
\* heartbeat task has dropped the receiver.
SequenceSend(q, h, seq) == IF HbAlive(h) THEN Append(q, seq) ELSE q

\* The handshake as it would be were the Identify sent again after every
\* InvalidateSession.
est_ready2_retry ==
    /\ pc = "est_ready2"
    /\ \E f \in Inbound :
        IF f.op = "Dispatch" /\ f.ev = "READY"
        THEN /\ seqchan' = [seqchan EXCEPT ![ew] = SequenceSend(@, ew, f.seq)]
             /\ EstReturnOk(In(f, "est_ready2", ew), f.seq, f.sid)
             /\ UNCHANGED <<chan, mainReply>>
        ELSE IF f.op = "InvalidateSession"
        THEN /\ chan' = [chan EXCEPT ![ew] = StartSend(@, [f |-> Identify, from |-> "main"])]
             /\ mainReply' = "pending"
             /\ estIdents' = estIdents + 1
             /\ pc' = "est_flush"
             /\ obs' = Read(In(f, "est_ready2", ew))
             /\ UNCHANGED <<conn, ecaller, attempt, ew, closed, unused, handles, shutdown,
                            failure, seqchan>>
        ELSE /\ EstReturnErr(In(f, "est_ready2", ew), Unexpected(f), TRUE)
             /\ UNCHANGED <<seqchan, chan, mainReply>>
    /\ UNCHANGED <<rw, wsCount, wst, hbst, hbseq, hbsends, panicAt>>
    /\ gurl' = IF obs'.est = "ok" THEN opened ELSE gurl
    /\ naps' = IF obs'.est = "-" THEN naps
               ELSE IF pc' \in {"est_open", "rc_rest"} THEN naps + 1
               ELSE 0
    /\ UNCHANGED opened
    /\ UNCHANGED <<sinkVars, rateVars, bucketVars, restVars>>

\* The frame after the second Identify: a READY ends the handshake (its
\* sequence is sent to the heartbeat task, awaited this time), anything else
\* is an error: a second InvalidateSession is Error::Protocol.
est_ready2 ==
    /\ pc = "est_ready2"
    /\ \E f \in Inbound :
        IF f.op = "Dispatch" /\ f.ev = "READY"
        THEN /\ seqchan' = [seqchan EXCEPT ![ew] = SequenceSend(@, ew, f.seq)]
             /\ EstReturnOk(In(f, "est_ready2", ew), f.seq, f.sid)
        ELSE /\ EstReturnErr(In(f, "est_ready2", ew), Unexpected(f), TRUE)
             /\ UNCHANGED seqchan
    /\ UNCHANGED <<rw, wsCount, wst, chan, mainReply, hbst, hbseq, hbsends, panicAt>>
    /\ gurl' = IF obs'.est = "ok" THEN opened ELSE gurl
    /\ naps' = IF obs'.est = "-" THEN naps
               ELSE IF pc' \in {"est_open", "rc_rest"} THEN naps + 1
               ELSE 0
    /\ UNCHANGED opened
    /\ UNCHANGED <<sinkVars, rateVars, bucketVars, restVars>>

establish_connection ==
    \/ est_open_ok
    \/ est_open_err
    \/ est_hello
    \/ est_ready
    \/ est_flush
    \/ est_ready2

\* ------------------------------------------------------------ recv_event

\* self.last_sequence = sequence, in recv_event and in resume.
NextLastSequence(last, seq) == seq

\* recv_event as it would be without the test num != Some(4006).
TryResumeAnyClose(session_id, op) == session_id # "None"

\* Whether a failed read is answered with resume: the session is known and
\* the failure is not a close with code 4006.
TryResume(session_id, op) ==
    /\ session_id # "None"
    /\ op # "ErrClosed4006"

\* A dispatch: its sequence is stored and sent as Status::Sequence on
\* keepalive_channel, and the event is returned.
recv_dispatch ==
    /\ pc = "idle"
    /\ \E f \in Dispatches :
        /\ conn' = [conn EXCEPT !.last_sequence = NextLastSequence(@, f.seq)]
        /\ obs' = Obs(In(f, "recv_event", conn.receiver), NoOut,
                      Ret("event", f.ev, f.sid, "dispatch", "-"), "Sequence", "-", 0)
    /\ UNCHANGED <<pc, ecaller, attempt, ew, rw, estIdents, wsCount, closed, unused, wst,
                   chan, handles, mainReply, hbst, hbseq, hbsends, seqchan, shutdown,
                   panicAt, failure>>
    /\ UNCHANGED <<gurl, opened, naps>>
    /\ UNCHANGED <<sinkVars, rateVars, bucketVars, restVars>>

\* The map recv_event builds for an inbound Heartbeat(sequence).
HeartbeatReply(f, last_sequence) == HeartbeatFrame(f.seq)

\* Hello and HeartbeatAck are passed over; an inbound Heartbeat is answered
\* with Status::SendMessage(map) on keepalive_channel, which is no field of
\* the connection and is read by no task: the map (recorded with websocket
\* 0) reaches neither the shared sender nor a websocket. The loop reads on.
recv_passed ==
    /\ pc = "idle"
    /\ \E f \in Controls :
        /\ f.op \in {"Hello", "HeartbeatAck", "Heartbeat"}
        /\ obs' = Obs(In(f, "recv_event", conn.receiver),
                      IF f.op = "Heartbeat"
                      THEN Out(0, HeartbeatReply(f, conn.last_sequence))
                      ELSE NoOut,
                      NoRet,
                      IF f.op = "Heartbeat" THEN "SendHeartbeat" ELSE "none", "-", 0)
    /\ UNCHANGED <<pc, conn, ecaller, attempt, ew, rw, estIdents, wsCount, closed, unused,
                   wst, chan, handles, mainReply, hbst, hbseq, hbsends, seqchan, shutdown,
                   panicAt, failure>>
    /\ UNCHANGED <<gurl, opened, naps>>
    /\ UNCHANGED <<sinkVars, rateVars, bucketVars, restVars>>

\* InvalidateSession: the session id is cleared and the Identify is sent as
\* Status::SendMessage on keepalive_channel.
recv_invalidate ==
    /\ pc = "idle"
    /\ conn' = [conn EXCEPT !.session_id = "None"]
    /\ obs' = Obs(In(Frame("InvalidateSession", 0, "-", "-"), "recv_event", conn.receiver),
                  NoOut, NoRet, "SendIdentify", "-", 0)
    /\ UNCHANGED <<pc, ecaller, attempt, ew, rw, estIdents, wsCount, closed, unused, wst,
                   chan, handles, mainReply, hbst, hbseq, hbsends, seqchan, shutdown,
                   panicAt, failure>>
    /\ UNCHANGED <<gurl, opened, naps>>
    /\ UNCHANGED <<sinkVars, rateVars, bucketVars, restVars>>

\* Reconnect (opcode 7): recv_event calls reconnect.
recv_reconnect ==
    /\ pc = "idle"
    /\ pc' = "reconnect"
    /\ failure' = "Reconnect"
    /\ obs' = Read(In(Frame("Reconnect", 0, "-", "-"), "recv_event", conn.receiver))
    /\ UNCHANGED <<conn, ecaller, attempt, ew, rw, estIdents, wsCount, closed, unused, wst,
                   chan, handles, mainReply, hbst, hbseq, hbsends, seqchan, shutdown,
                   panicAt>>
    /\ UNCHANGED <<gurl, opened, naps>>
    /\ UNCHANGED <<sinkVars, rateVars, bucketVars, restVars>>

\* The oneshot shutdown_heartbeat.take()...send(()): the signal is stored
\* unless the heartbeat task is gone.
SignalShutdown(h) ==
    IF HbAlive(h) THEN [shutdown EXCEPT ![h] = "sent"] ELSE shutdown

\* A websocket error or a close. With TryResume, resume starts: it takes the
\* shutdown handle (unreachable!() when there is none) and signals the
\* heartbeat task, then connects. Otherwise reconnect is called.
recv_failure ==
    /\ pc = "idle"
    /\ \E f \in ReadErrors :
        /\ f.op \in {"ErrWebSocket", "ErrClosed", "ErrClosed4006"}
        /\ obs' = Read(In(f, "recv_event", conn.receiver))
        /\ failure' = f.op
        /\ IF TryResume(conn.session_id, f.op)
           THEN IF conn.shutdown_heartbeat = 0
                THEN /\ pc' = "panicked"
                     /\ panicAt' = "resume_take"
                     /\ UNCHANGED <<conn, shutdown>>
                ELSE /\ pc' = "resume_open"
                     /\ shutdown' = SignalShutdown(conn.shutdown_heartbeat)
                     /\ conn' = [conn EXCEPT !.shutdown_heartbeat = 0]
                     /\ UNCHANGED panicAt
           ELSE /\ pc' = "reconnect"
                /\ UNCHANGED <<conn, shutdown, panicAt>>
    /\ UNCHANGED <<ecaller, attempt, ew, rw, estIdents, wsCount, closed, unused, wst, chan,
                   handles, mainReply, hbst, hbseq, hbsends, seqchan>>
    /\ UNCHANGED <<gurl, opened, naps>>
    /\ UNCHANGED <<sinkVars, rateVars, bucketVars, restVars>>

\* Any other error is returned to the caller.
recv_error ==
    /\ pc = "idle"
    /\ obs' = Obs(In(Frame("ErrJson", 0, "-", "-"), "recv_event", conn.receiver), NoOut,
                  Ret("err", "-", "-", "dispatch", "Json"), "none", "-", 0)
    /\ UNCHANGED <<pc, conn, ecaller, attempt, ew, rw, estIdents, wsCount, closed, unused,
                   wst, chan, handles, mainReply, hbst, hbseq, hbsends, seqchan, shutdown,
                   panicAt, failure>>
    /\ UNCHANGED <<gurl, opened, naps>>
    /\ UNCHANGED <<sinkVars, rateVars, bucketVars, restVars>>

recv_event ==
    \/ recv_dispatch
    \/ recv_passed
    \/ recv_invalidate
    \/ recv_reconnect
    \/ recv_failure
    \/ recv_error

\* ---------------------------------------------------------------- resume

\* WebSocket::connect and the Resume frame, written on the raw sink.
resume_open_ok ==
    /\ pc = "resume_open"
    /\ wsCount < MaxWs
    /\ wsCount' = wsCount + 1
    /\ rw' = wsCount + 1
    /\ obs' = [Quiet EXCEPT
                 !.out = Out(wsCount + 1, Resume(conn.last_sequence, conn.session_id))]
    /\ pc' = "resume_loop"
    /\ UNCHANGED <<conn, ecaller, attempt, ew, estIdents, closed, unused, wst, chan, handles,
                   mainReply, hbst, hbseq, hbsends, seqchan, shutdown, panicAt, failure>>
    /\ opened' = build_gateway_url(gurl)
    /\ UNCHANGED <<gurl, naps>>
    /\ UNCHANGED <<sinkVars, rateVars, bucketVars, restVars>>

\* The resume failed: recv_event logs the error and goes on to reconnect.
resume_open_err ==
    /\ pc = "resume_open"
    /\ pc' = "reconnect"
    /\ obs' = Quiet
    /\ UNCHANGED <<conn, ecaller, attempt, ew, rw, estIdents, wsCount, closed, unused, wst,
                   chan, handles, mainReply, hbst, hbseq, hbsends, seqchan, shutdown,
                   panicAt, failure>>
    /\ UNCHANGED <<gurl, opened, naps>>
    /\ UNCHANGED <<sinkVars, rateVars, bucketVars, restVars>>

\* resume as it would be without the assignment self.receiver = receiver.
ResumeReceiverKept(old, new) == old

\* self.receiver = receiver, at the end of a resume.
ResumeReceiver(old, new) == new

\* The session id after the first dispatch of a resume.
ResumeSession(old, f) == IF f.ev = "READY" THEN f.sid ELSE old

\* The loop of resume on the new websocket: a Hello is sent on as
\* Status::ChangeInterval, the first dispatch ends the resume, an
\* InvalidateSession is answered with the Identify on the raw sink, anything
\* else fails the resume and drops the new websocket.
resume_loop ==
    /\ pc = "resume_loop"
    /\ \E f \in Inbound :
        CASE f.op = "Hello" ->
                /\ obs' = [Read(In(f, "resume", rw)) EXCEPT !.keepalive = "ChangeInterval"]
                /\ UNCHANGED <<pc, conn, rw, failure>>
          [] f.op = "Dispatch" ->
                /\ conn' = [conn EXCEPT
                              !.session_id = ResumeSession(@, f),
                              !.last_sequence = NextLastSequence(@, f.seq),
                              !.receiver = ResumeReceiver(@, rw)]
                /\ obs' = Obs(In(f, "resume", rw), NoOut,
                              Ret("event", f.ev, f.sid, "resume", "-"), "ChangeSender",
                              "-", 0)
                /\ pc' = "idle"
                /\ rw' = 0
                /\ failure' = "-"
          [] f.op = "InvalidateSession" ->
                \/ /\ obs' = [Read(In(f, "resume", rw)) EXCEPT !.out = Out(rw, Identify)]
                   /\ UNCHANGED <<pc, conn, rw, failure>>
                \/ /\ obs' = Read(In(f, "resume", rw))
                   /\ pc' = "reconnect"
                   /\ rw' = 0
                   /\ UNCHANGED <<conn, failure>>
          [] OTHER ->
                /\ obs' = Read(In(f, "resume", rw))
                /\ pc' = "reconnect"
                /\ rw' = 0
                /\ UNCHANGED <<conn, failure>>
    /\ UNCHANGED <<ecaller, attempt, ew, estIdents, wsCount, closed, unused, wst, chan,
                   handles, mainReply, hbst, hbseq, hbsends, seqchan, shutdown, panicAt>>
    /\ UNCHANGED <<gurl, opened, naps>>
    /\ UNCHANGED <<sinkVars, rateVars, bucketVars, restVars>>

resume ==
    \/ resume_open_ok
    \/ resume_open_err
    \/ resume_loop

\* ------------------------------------------------------------- reconnect

\* After the sleep: the shutdown handle is taken (unreachable!() when there is
\* none) and sent, and the send is expected to succeed; then the first
\* handshake attempt starts.
reconnect_begin ==
    /\ pc = "reconnect"
    /\ IF conn.shutdown_heartbeat = 0
       THEN /\ pc' = "panicked"
            /\ panicAt' = "reconnect_take"
            /\ UNCHANGED <<conn, shutdown, ecaller, attempt>>
       ELSE IF ~HbAlive(conn.shutdown_heartbeat)
       THEN /\ pc' = "panicked"
            /\ panicAt' = "reconnect_expect"
            /\ conn' = [conn EXCEPT !.shutdown_heartbeat = 0]
            /\ UNCHANGED <<shutdown, ecaller, attempt>>
       ELSE /\ pc' = "est_open"
            /\ ecaller' = "reconnect"
            /\ attempt' = 1
            /\ shutdown' = SignalShutdown(conn.shutdown_heartbeat)
            /\ conn' = [conn EXCEPT !.shutdown_heartbeat = 0]
            /\ UNCHANGED panicAt
    /\ obs' = Quiet
    /\ UNCHANGED <<ew, rw, estIdents, wsCount, closed, unused, wst, chan, handles,
                   mainReply, hbst, hbseq, hbsends, seqchan, failure>>
    /\ naps' = 1
    /\ UNCHANGED <<gurl, opened>>
    /\ UNCHANGED <<sinkVars, rateVars, bucketVars, restVars>>

\* Both attempts on the known URL failed: get_gateway_url over REST, and a
\* third attempt on the URL it returns.
reconnect_rest ==
    /\ pc = "rc_rest"
    /\ \/ /\ pc' = "est_open"
          /\ obs' = Quiet
          /\ UNCHANGED <<ecaller, attempt, failure>>
       \/ /\ pc' = "idle"
          /\ failure' = "-"
          /\ obs' = [Quiet EXCEPT !.ret = Ret("err", "-", "-", "reconnect", "Rest")]
          /\ ecaller' = "connect"
          /\ attempt' = 0
    /\ UNCHANGED <<conn, ew, rw, estIdents, wsCount, closed, unused, wst, chan, handles,
                   mainReply, hbst, hbseq, hbsends, seqchan, shutdown, panicAt>>
    /\ naps' = IF pc' = "idle" THEN 0 ELSE naps
    /\ UNCHANGED <<gurl, opened>>
    /\ UNCHANGED <<sinkVars, rateVars, bucketVars, restVars>>

reconnect ==
    \/ reconnect_begin
    \/ reconnect_rest

\* ------------------------------------------------------------------ Drop

\* The caller drops the Connection: Drop calls inner_shutdown, which is
\* todo!(); the fields are dropped while the panic unwinds.
drop ==
    /\ pc = "idle"
    /\ pc' = "dropped"
    /\ panicAt' = "inner_shutdown"
    /\ handles' = [handles EXCEPT ![conn.id] = @ \ {"main"}]
    /\ shutdown' = IF conn.shutdown_heartbeat # 0
                   THEN [shutdown EXCEPT ![conn.shutdown_heartbeat] = "dropped"]
                   ELSE shutdown
    /\ unused' = unused \cup {conn.id}
    /\ conn' = NoConnection
    /\ obs' = Quiet
    /\ UNCHANGED <<ecaller, attempt, ew, rw, estIdents, wsCount, closed, wst, chan,
                   mainReply, hbst, hbseq, hbsends, seqchan, failure>>
    /\ UNCHANGED <<gurl, opened, naps>>
    /\ UNCHANGED <<sinkVars, rateVars, bucketVars, restVars>>

\* ------------------------------------------------------------- heartbeat

\* while let Ok(num) = sequence.try_recv() { last_sequence = num }
Drain(last, q) == IF q = <<>> THEN last ELSE q[Len(q)]

\* A tick: the sequence channel is drained and the heartbeat frame is sent
\* through the task's clone of the shared sender. The send starts the frame
\* and then flushes, and the flush polls every reply slot the handle holds: a
\* slot that has already yielded its value panics ("called after complete").
hb_tick(h) ==
    /\ hbst[h] = "select"
    /\ seqchan' = [seqchan EXCEPT ![h] = <<>>]
    /\ chan' = [chan EXCEPT ![h] =
                    StartSend(@, [f |-> HeartbeatFrame(Drain(hbseq[h], seqchan[h])),
                                  from |-> "hb"])]
    /\ IF hbsends[h] > 0
       THEN /\ hbst' = [hbst EXCEPT ![h] = "panicked"]
            /\ hbseq' = [hbseq EXCEPT ![h] = 0]
            /\ hbsends' = [hbsends EXCEPT ![h] = 0]
            /\ handles' = [handles EXCEPT ![h] = @ \ {"hb"}]
       ELSE /\ hbst' = [hbst EXCEPT ![h] = "flushing"]
            /\ hbseq' = [hbseq EXCEPT ![h] = Drain(@, seqchan[h])]
            /\ UNCHANGED <<hbsends, handles>>
    /\ obs' = Quiet
    /\ UNCHANGED <<pc, conn, ecaller, attempt, ew, rw, estIdents, wsCount, closed, unused,
                   wst, mainReply, shutdown, panicAt, failure>>
    /\ UNCHANGED <<gurl, opened, naps>>
    /\ UNCHANGED <<sinkVars, rateVars, bucketVars, restVars>>

\* The writer has replied: the send is over and the loop selects again.
hb_flushed(h) ==
    /\ hbst[h] = "flushing"
    /\ \A i \in 1..Len(chan[h]) : chan[h][i].from # "hb"
    /\ hbst' = [hbst EXCEPT ![h] = "select"]
    /\ hbsends' = [hbsends EXCEPT ![h] = 1]
    /\ obs' = Quiet
    /\ UNCHANGED <<pc, conn, ecaller, attempt, ew, rw, estIdents, wsCount, closed, unused,
                   wst, chan, handles, mainReply, hbseq, seqchan, shutdown, panicAt, failure>>
    /\ UNCHANGED <<gurl, opened, naps>>
    /\ UNCHANGED <<sinkVars, rateVars, bucketVars, restVars>>

\* The shutdown branch of the select: the signal was sent, or its sender was
\* dropped. The task ends: its locals and its clone of the shared sender are
\* dropped.
hb_shutdown(h) ==
    /\ hbst[h] = "select"
    /\ shutdown[h] # "open"
    /\ hbst' = [hbst EXCEPT ![h] = "done"]
    /\ hbseq' = [hbseq EXCEPT ![h] = 0]
    /\ hbsends' = [hbsends EXCEPT ![h] = 0]
    /\ seqchan' = [seqchan EXCEPT ![h] = <<>>]
    /\ handles' = [handles EXCEPT ![h] = @ \ {"hb"}]
    /\ obs' = Quiet
    /\ UNCHANGED <<pc, conn, ecaller, attempt, ew, rw, estIdents, wsCount, closed, unused,
                   wst, chan, mainReply, shutdown, panicAt, failure>>
    /\ UNCHANGED <<gurl, opened, naps>>
    /\ UNCHANGED <<sinkVars, rateVars, bucketVars, restVars>>

heartbeat ==
    \E h \in WsIds :
        \/ hb_tick(h)
        \/ hb_flushed(h)
        \/ hb_shutdown(h)

\* --------------------------------------------- the SharedSink writer task

\* The writer as it would be were the newest item taken first.
NextItemNewest(q) == q[Len(q)]

\* The item the writer task takes from the channel.
NextItem(q) == Head(q)

RestItems(q) == Tail(q)

\* Whether a send on the sink may fail. The heartbeat task only logs a failed
\* send, so a failure is told apart for the caller task's items alone.
MayFail(item) == item.from = "main"

\* receive.recv() yields an item: the writer sends it on the sink, whole, and
\* replies with the result.
writer_write(w) ==
    /\ wst[w] = "run"
    /\ chan[w] # <<>>
    /\ chan' = [chan EXCEPT ![w] = RestItems(@)]
    /\ \E ok \in {TRUE} \cup {~MayFail(NextItem(chan[w]))} :
        /\ obs' = IF ok THEN [Quiet EXCEPT !.out = Out(w, NextItem(chan[w]).f)] ELSE Quiet
        /\ mainReply' = IF NextItem(chan[w]).from = "main"
                        THEN (IF ok THEN "ok" ELSE "err")
                        ELSE mainReply
    /\ UNCHANGED <<pc, conn, ecaller, attempt, ew, rw, estIdents, wsCount, closed, unused,
                   wst, handles, hbst, hbseq, hbsends, seqchan, shutdown, panicAt, failure>>
    /\ UNCHANGED <<gurl, opened, naps>>
    /\ UNCHANGED <<sinkVars, rateVars, bucketVars, restVars>>

\* receive.recv() yields None: every sender is dropped and the channel is
\* empty. The task ends.
writer_exit(w) ==
    /\ wst[w] = "run"
    /\ chan[w] = <<>>
    /\ handles[w] = {}
    /\ wst' = [wst EXCEPT ![w] = "done"]
    /\ obs' = Quiet
    /\ UNCHANGED <<pc, conn, ecaller, attempt, ew, rw, estIdents, wsCount, closed, unused,
                   chan, handles, mainReply, hbst, hbseq, hbsends, seqchan, shutdown,
                   panicAt, failure>>
    /\ UNCHANGED <<gurl, opened, naps>>
    /\ UNCHANGED <<sinkVars, rateVars, bucketVars, restVars>>

writer ==
    \E w \in WsIds :
        \/ writer_write(w)
        \/ writer_exit(w)

\* ------------------------------------------------- one SharedSink (io.rs)

Handles == {"first", "clone1", "clone2"}

\* What the last poll_flush returned, and to which handle.
Flushed(by, result) == [by |-> by, result |-> result]

NoFlush == Flushed("-", "none")

\* SharedSink::new: the writer task is spawned and the first handle returned.
SinkInit ==
    /\ sq = <<>>
    /\ shandles = {"first"}
    /\ sclosed = {}
    /\ swst = "run"
    /\ submitted = <<>>
    /\ replies = <<>>
    /\ written = <<>>
    /\ flushed = NoFlush

\* The items handle c has sent so far.
SentBy(c) == {i \in 1..Len(submitted) : submitted[i].from = c}

\* Clone::clone: a handle on the same channel, with no reply slots.
sink_clone(c, d) ==
    /\ c \in shandles
    /\ d \notin shandles \cup sclosed
    /\ shandles' = shandles \cup {d}
    /\ flushed' = NoFlush
    /\ UNCHANGED <<sq, sclosed, swst, submitted, replies, written>>
    /\ UNCHANGED <<connVars, rateVars, bucketVars, restVars>>

\* start_send through handle c: its next item, numbered per handle, enters
\* the channel with the sending half of a fresh reply slot; the receiving
\* half is pushed on the handle's `current`.
sink_start_send(c) ==
    /\ c \in shandles
    /\ Len(submitted) < MaxFrames
    /\ LET item == [f |-> Frame("Data", Cardinality(SentBy(c)) + 1, "-", "-"), from |-> c]
       IN /\ sq' = StartSend(sq, item)
          /\ submitted' = Append(submitted, item)
    /\ replies' = Append(replies, "pending")
    /\ flushed' = NoFlush
    /\ UNCHANGED <<shandles, sclosed, swst, written>>
    /\ UNCHANGED <<connVars, rateVars, bucketVars, restVars>>

\* One poll_flush of handle c from slot i on, rep being the reply slots: the
\* slots of `current` are polled in order, from the first one each time. A
\* slot whose value was taken by an earlier poll panics ("called after
\* complete"); a pending one makes the flush pending; one holding an error
\* makes the flush return it; one holding Ok is passed.
RECURSIVE PollFlush(_, _, _)
PollFlush(c, i, rep) ==
    IF i > Len(submitted) THEN [replies |-> rep, result |-> "Ok"]
    ELSE IF submitted[i].from # c THEN PollFlush(c, i + 1, rep)
    ELSE IF rep[i] = "taken" THEN [replies |-> rep, result |-> "panic"]
    ELSE IF rep[i] = "pending" THEN [replies |-> rep, result |-> "Pending"]
    ELSE IF rep[i] = "err" THEN [replies |-> [rep EXCEPT ![i] = "taken"], result |-> "Err"]
    ELSE PollFlush(c, i + 1, [rep EXCEPT ![i] = "taken"])

\* poll_flush on handle c, open or closed. A panic unwinds the task that
\* holds the handle, which drops it.
sink_flush(c) ==
    LET p == PollFlush(c, 1, replies)
    IN /\ c \in shandles \cup sclosed
       /\ replies' = p.replies
       /\ flushed' = Flushed(c, p.result)
       /\ shandles' = IF p.result = "panic" THEN shandles \ {c} ELSE shandles
       /\ sclosed' = IF p.result = "panic" THEN sclosed \ {c} ELSE sclosed
       /\ UNCHANGED <<sq, swst, submitted, written>>
       /\ UNCHANGED <<connVars, rateVars, bucketVars, restVars>>

\* poll_close on handle c: its channel sender is taken and dropped.
sink_close(c) ==
    /\ c \in shandles
    /\ shandles' = shandles \ {c}
    /\ sclosed' = sclosed \cup {c}
    /\ flushed' = NoFlush
    /\ UNCHANGED <<sq, swst, submitted, replies, written>>
    /\ UNCHANGED <<connVars, rateVars, bucketVars, restVars>>

\* Handle c, open or closed, is dropped.
sink_drop(c) ==
    /\ c \in shandles \cup sclosed
    /\ shandles' = shandles \ {c}
    /\ sclosed' = sclosed \ {c}
    /\ flushed' = NoFlush
    /\ UNCHANGED <<sq, swst, submitted, replies, written>>
    /\ UNCHANGED <<connVars, rateVars, bucketVars, restVars>>

\* The slot of the item at the head of the channel.
HeadSlot == Len(submitted) - Len(sq) + 1

\* The writer task takes an item and sends it on the sink, whole; the send
\* succeeds or fails, its result goes into the item's reply slot, and the
\* loop goes on either way.
sink_write ==
    /\ swst = "run"
    /\ sq # <<>>
    /\ sq' = RestItems(sq)
    /\ \E ok \in BOOLEAN :
        /\ written' = IF ok THEN Append(written, NextItem(sq)) ELSE written
        /\ replies' = [replies EXCEPT ![HeadSlot] = IF ok THEN "ok" ELSE "err"]
    /\ flushed' = NoFlush
    /\ UNCHANGED <<shandles, sclosed, swst, submitted>>
    /\ UNCHANGED <<connVars, rateVars, bucketVars, restVars>>

\* receive.recv() yields None: every sender is dropped and the channel is
\* empty. The task ends.
sink_exit ==
    /\ swst = "run"
    /\ sq = <<>>
    /\ shandles = {}
    /\ swst' = "done"
    /\ flushed' = NoFlush
    /\ UNCHANGED <<sq, shandles, sclosed, submitted, replies, written>>
    /\ UNCHANGED <<connVars, rateVars, bucketVars, restVars>>

SinkNext ==
    \/ \E c, d \in Handles : sink_clone(c, d)
    \/ \E c \in Handles : sink_start_send(c)
    \/ \E c \in Handles : sink_flush(c)
    \/ \E c \in Handles : sink_close(c)
    \/ \E c \in Handles : sink_drop(c)
    \/ sink_write
    \/ sink_exit

\* ------------------------------- the global bucket (ratelimit/rest.rs)

Deadlines == 0..(MaxTick + Second)

\* GlobalLimitCounter::default() and the state around it.
RateInit ==
    /\ now = 0
    /\ requests_made = 0
    /\ started_counting = 0
    /\ parked = [d \in Deadlines |-> 0]
    /\ direct = [i \in 1..Second |-> 0]
    /\ issued = [t \in 0..MaxTick |-> 0]
    /\ woken = [d \in Deadlines |-> 0]

\* GlobalLimitCounter::increment_and_check at time t: the counter afterwards
\* and Ok, or Err(until).
increment_and_check(made, started, t) ==
    IF made + 1 < GlobalLimit
    THEN [ok |-> TRUE, until |-> 0, requests_made |-> made + 1, started_counting |-> started]
    ELSE IF started + Second > t
    THEN [ok |-> FALSE, until |-> started + Second, requests_made |-> made + 1,
          started_counting |-> started]
    ELSE [ok |-> TRUE, until |-> 0, requests_made |-> 0, started_counting |-> t]

\* The largest and the smallest i32.
MaxI32 == 2147483647
MinI32 == (-MaxI32) - 1

\* A u32, written hi * 2^31 + lo with hi in 0..1 and lo in 0..MaxI32.
U32(hi, lo) == [hi |-> hi, lo |-> lo]

\* `x as i32` of a u32 x: the same 32 bits read as two's complement.
AsI32(u) == IF u.hi = 1 THEN (u.lo - MaxI32) - 1 ELSE u.lo

\* `x -= 1` on an i32 where the build wraps on overflow.
Dec32(x) == IF x = MinI32 THEN MaxI32 ELSE x - 1

\* LimitCounter::default() at time t.
LimitCounterDefault(t) ==
    [limit |-> U32(0, RouteLimit), remaining |-> RouteLimit, window |-> t]

\* LimitCounter::decrement_and_check at time t.
decrement_and_check(c, t) ==
    IF Dec32(c.remaining) > 0
    THEN [ok |-> TRUE, until |-> 0, counter |-> [c EXCEPT !.remaining = Dec32(@)]]
    ELSE IF t < c.window
    THEN [ok |-> FALSE, until |-> c.window, counter |-> [c EXCEPT !.remaining = Dec32(@)]]
    ELSE [ok |-> TRUE, until |-> 0,
          counter |-> [c EXCEPT !.remaining = AsI32(c.limit), !.window = t + Second]]

Asleep == LET RECURSIVE Sum(_)
              Sum(d) == IF d < 0 THEN 0 ELSE parked[d] + Sum(d - 1)
          IN Sum(MaxTick + Second)

\* One caller calls check for a path no caller has asked for before, so that
\* the route's counter is a fresh one. On None it issues its request at once;
\* on Some(sleep) it sleeps until the time returned, plus the random offset.
rate_check ==
    LET g == increment_and_check(requests_made, started_counting, now)
        r == decrement_and_check(LimitCounterDefault(now), now)
    IN /\ requests_made' = g.requests_made
       /\ started_counting' = g.started_counting
       /\ IF g.ok /\ r.ok
          THEN /\ direct' = [direct EXCEPT ![1] = @ + 1]
               /\ UNCHANGED parked
          ELSE /\ Asleep < MaxParked
               /\ parked' = [parked EXCEPT ![IF g.ok THEN r.until ELSE g.until] = @ + 1]
               /\ UNCHANGED direct
       /\ UNCHANGED <<now, issued, woken>>
       /\ UNCHANGED <<connVars, sinkVars, bucketVars, restVars>>

\* A caller's sleep is over: it issues its request.
rate_wake(d) ==
    /\ parked[d] > 0
    /\ now >= d
    /\ parked' = [parked EXCEPT ![d] = @ - 1]
    /\ UNCHANGED <<now, requests_made, started_counting, direct, issued, woken>>
    /\ UNCHANGED <<connVars, sinkVars, bucketVars, restVars>>

\* The clock advances by one tick.
rate_tick ==
    /\ now < MaxTick
    /\ now' = now + 1
    /\ direct' = [i \in 1..Second |-> IF i = 1 THEN 0 ELSE direct[i - 1]]
    /\ UNCHANGED <<requests_made, started_counting, parked, issued, woken>>
    /\ UNCHANGED <<connVars, sinkVars, bucketVars, restVars>>

RateNext ==
    \/ rate_check
    \/ \E d \in Deadlines : rate_wake(d)
    \/ rate_tick

\* ------------------------------ the route buckets (ratelimit/rest.rs)

\* The paths requested.
Urls == {"/a", "/b"}

NoCounter == [limit |-> U32(0, 0), remaining |-> 0, window |-> -1]

\* A header of a response as RateLimits::update reads it: absent, present
\* with a value that is no number of the type parsed, present with a number,
\* or (X-RateLimit-Reset only) present with a number of seconds that no
\* NaiveDateTime holds.
Hdr(kind, v) == [kind |-> kind, v |-> v]

\* The X-RateLimit-Limit headers here: none, one that is no u32, and 2.
LimitTexts == {Hdr("absent", U32(0, 0)), Hdr("bad", U32(0, 0)), Hdr("num", U32(0, 2))}

\* The X-RateLimit-Remaining headers here: none, one that is no u32, 0 and
\* 2^31.
RemainingTexts ==
    {Hdr("absent", U32(0, 0)), Hdr("bad", U32(0, 0)),
     Hdr("num", U32(0, 0)), Hdr("num", U32(1, 0))}

\* The X-RateLimit-Reset headers here.
ResetTexts == {Hdr("absent", 0), Hdr("huge", 0), Hdr("num", 0), Hdr("num", MaxTick)}

\* The responses given to RateLimits::update. Without X-RateLimit-Global:
\* those with three headers it parses (remaining 0 or 2^31, reset 0 or
\* MaxTick, and one that leaves a path two requests until MaxTick) and those
\* with one header of the three missing, not a number or too large. With
\* X-RateLimit-Global: two that it parses and two whose limit header is
\* missing or not a number.
Response(limit, remaining, reset, global) ==
    [limit |-> limit, remaining |-> remaining, reset |-> reset, global |-> global]

Responses ==
    {Response(Hdr("num", U32(0, 2)), rem, rst, FALSE) :
        rem \in {Hdr("num", U32(0, 0)), Hdr("num", U32(1, 0))},
        rst \in {Hdr("num", 0), Hdr("num", MaxTick)}}
    \cup {Response(Hdr("num", U32(0, 2)), Hdr("num", U32(0, 2)), Hdr("num", MaxTick), FALSE)}
    \cup {Response(l, Hdr("num", U32(0, 0)), Hdr("num", 0), FALSE) : l \in LimitTexts}
    \cup {Response(Hdr("num", U32(0, 2)), rem, Hdr("num", 0), FALSE) : rem \in RemainingTexts}
    \cup {Response(Hdr("num", U32(0, 2)), Hdr("num", U32(0, 0)), rst, FALSE) : rst \in ResetTexts}
    \cup {Response(Hdr("num", U32(0, 2)), Hdr("num", U32(0, 0)), rst, TRUE) :
            rst \in {Hdr("num", 0), Hdr("num", MaxTick)}}
    \cup {Response(l, Hdr("num", U32(0, 0)), Hdr("num", 0), TRUE) :
            l \in {Hdr("absent", U32(0, 0)), Hdr("bad", U32(0, 0))}}

\* RateLimit::default() of ratelimit.rs, and the value standing for a path
\* that is no key of RateLimits::endpoints.
RateLimitDefault == [reset |-> 0, limit |-> 0, remaining |-> 0]
NoRateLimit == [reset |-> -1, limit |-> -1, remaining |-> -1]

\* What a call on the limiter did: the operation, the path, what the response
\* carried, how the call ended and the instant the call is about: for a check
\* that returns a sleep, the instant the sleep lasts to before its random
\* offset; for an update, the X-RateLimit-Reset read; -1 otherwise. For a
\* response without X-RateLimit-Global, kinds tells of its limit, remaining
\* and reset headers which are absent and which are numbers, and the numbers
\* are limit and remaining (ratelimit.rs, i64) or limit32 and remaining32
\* (ratelimit/rest.rs, u32).
NoKinds == <<"-", "-", "-">>

Upd(op, url, global, malformed, result) ==
    [op |-> op, url |-> url, global |-> global, malformed |-> malformed,
     result |-> result, at |-> -1, kinds |-> NoKinds, limit |-> 0, remaining |-> 0,
     limit32 |-> U32(0, 0), remaining32 |-> U32(0, 0)]

\* The kinds of the three headers of response r.
Kinds(r) == IF r.global THEN NoKinds ELSE <<r.limit.kind, r.remaining.kind, r.reset.kind>>

\* Whether the call recorded was given three headers that are numbers.
WellFormed(rec) == rec.kinds = <<"num", "num", "num">>

\* Whether it was given no X-RateLimit-Limit and numbers for the other two.
LacksLimit(rec) == rec.kinds = <<"absent", "num", "num">>

\* A check that returns a sleep lasting to the instant t.
SleepUntil(u, t) == [Upd("check", u, FALSE, FALSE, "sleep") EXCEPT !.at = t]

\* The instants a second Utc::now() may give after one that gave t.
LaterReadings(t) == t..MaxTick

\* What check makes of Err(sleep_until) with its own clock reading now2:
\* `(sleep_until - now2 + random_offset).to_std().unwrap()` panics when the
\* sum is negative, the offset being less than a tick.
SleepOrPanic(u, sleep_until, now2) ==
    IF sleep_until - now2 < 0
    THEN [Upd("check", u, FALSE, FALSE, "panic") EXCEPT !.at = sleep_until]
    ELSE SleepUntil(u, sleep_until)

\* An update from response r.
Updated(u, r, malformed, result) ==
    [Upd("update", u, r.global, malformed, result)
        EXCEPT !.at = IF r.reset.kind = "num" THEN r.reset.v ELSE -1,
               !.kinds = Kinds(r),
               !.limit32 = IF ~r.global /\ r.limit.kind = "num" THEN r.limit.v ELSE U32(0, 0),
               !.remaining32 = IF ~r.global /\ r.remaining.kind = "num"
                               THEN r.remaining.v ELSE U32(0, 0)]

NoUpd == Upd("none", "/a", FALSE, FALSE, "none")

BucketInit ==
    /\ routes = [u \in Urls |-> NoCounter]
    /\ nchecks = 0
    /\ lglobal = RateLimitDefault
    /\ endpoints = [u \in Urls |-> NoRateLimit]
    /\ upd = NoUpd

\* RateLimits::check(url): the global bucket first; the route's bucket,
\* inserted fresh when the path is new, only when the global one lets the
\* request through. `self.remaining -= 1` of an i32 at its minimum panics in
\* a build with overflow checks and wraps in one without. On Err the clock is
\* read a second time, at the same instant as by the counter or later.
check(u) ==
    LET g == increment_and_check(requests_made, started_counting, now)
        route == IF routes[u] = NoCounter THEN LimitCounterDefault(now) ELSE routes[u]
        r == decrement_and_check(route, now)
    IN /\ family = "rest"
       /\ nchecks' = nchecks + 1
       /\ requests_made' = g.requests_made
       /\ started_counting' = g.started_counting
       /\ IF ~g.ok
          THEN /\ UNCHANGED routes
               /\ \E now2 \in LaterReadings(now) :
                    /\ now' = now2
                    /\ upd' = SleepOrPanic(u, g.until, now2)
          ELSE \E overflow_checks \in BOOLEAN :
                  IF route.remaining = MinI32 /\ overflow_checks
                  THEN /\ routes' = [routes EXCEPT ![u] = route]
                       /\ upd' = Upd("check", u, FALSE, FALSE, "panic")
                       /\ UNCHANGED now
                  ELSE /\ routes' = [routes EXCEPT ![u] = r.counter]
                       /\ IF r.ok
                          THEN upd' = Upd("check", u, FALSE, FALSE, "none") /\ UNCHANGED now
                          ELSE \E now2 \in LaterReadings(now) :
                                  /\ now' = now2
                                  /\ upd' = SleepOrPanic(u, r.until, now2)
       /\ UNCHANGED <<family, lglobal, endpoints>>
       /\ UNCHANGED <<connVars, sinkVars, restVars>>

\* One call of check on the buckets at rest, no caller acting on what it
\* returns.
bucket_check(u) ==
    /\ nchecks < MaxChecks
    /\ check(u)
    /\ UNCHANGED <<parked, direct, issued, woken>>

\* Whether a response carries X-RateLimit-Global.
IsGlobalLimitNever(r) == FALSE
IsGlobalLimit(r) == r.global

\* Whether one of the three headers RateLimits::update parses is missing or
\* no number, and whether one is no number.
Unparsed(r) ==
    \/ r.limit.kind \in {"absent", "bad"}
    \/ r.remaining.kind \in {"absent", "bad"}
    \/ r.reset.kind \in {"absent", "bad"}

BadHeader(r) == "bad" \in {r.limit.kind, r.remaining.kind, r.reset.kind}

\* RateLimits::update(url, response).
update(u, r) ==
    /\ family = "rest"
    /\ IF Unparsed(r)
       THEN /\ upd' = Updated(u, r, BadHeader(r), "err")
            /\ UNCHANGED <<routes, requests_made, started_counting>>
       ELSE IF r.reset.kind = "huge"
       THEN /\ upd' = Updated(u, r, FALSE, "panic")
            /\ UNCHANGED <<routes, requests_made, started_counting>>
       ELSE IF IsGlobalLimit(r)
       THEN /\ requests_made' = GlobalLimit
            /\ started_counting' = r.reset.v
            /\ upd' = Updated(u, r, FALSE, "ok")
            /\ UNCHANGED routes
       ELSE /\ routes' = [routes EXCEPT ![u] =
                             [limit |-> r.limit.v,
                              remaining |-> AsI32(r.remaining.v),
                              window |-> r.reset.v]]
            /\ upd' = Updated(u, r, FALSE, "ok")
            /\ UNCHANGED <<requests_made, started_counting>>
    /\ UNCHANGED <<now, parked, direct, issued, woken>>
    /\ UNCHANGED <<family, nchecks, lglobal, endpoints>>
    /\ UNCHANGED <<connVars, sinkVars, restVars>>

\* An update from any of the responses.
bucket_update(u) == \E r \in Responses : update(u, r)

\* The clock advances by one tick while the buckets are at rest. The buckets
\* of ratelimit.rs are not read against the clock by post_update.
bucket_tick ==
    /\ family = "rest"
    /\ now < MaxTick
    /\ now' = now + 1
    /\ upd' = NoUpd
    /\ UNCHANGED <<requests_made, started_counting, parked, direct, issued, woken>>
    /\ UNCHANGED <<family, routes, nchecks, lglobal, endpoints>>
    /\ UNCHANGED <<connVars, sinkVars, restVars>>

\* ------------------------- one route with its callers (ratelimit/rest.rs)

\* The path the callers ask for, and the responses to their requests: those
\* without X-RateLimit-Global.
RoutePath == "/a"

RouteResponses == {r \in Responses : ~r.global}

\* A caller calls check for RoutePath and does as it is told: on None it
\* issues its request at once, on Some(sleep) it sleeps out the sleep, which
\* lasts to the instant returned plus the random offset. A caller whose
\* check panicked issues nothing.
route_call ==
    /\ nchecks < MaxCalls
    /\ check(RoutePath)
    /\ upd'.result = "sleep" => Asleep < MaxParked
    /\ parked' = IF upd'.result = "sleep" THEN [parked EXCEPT ![upd'.at] = @ + 1] ELSE parked
    /\ issued' = IF upd'.result = "none" THEN [issued EXCEPT ![now'] = @ + 1] ELSE issued
    /\ UNCHANGED <<direct, woken>>

\* The sleep of a caller is over, at the instant it lasts to or later: the
\* caller issues its request.
route_wake(d) ==
    /\ family = "rest"
    /\ parked[d] > 0
    /\ now >= d
    /\ parked' = [parked EXCEPT ![d] = @ - 1]
    /\ woken' = [woken EXCEPT ![d] = @ + 1]
    /\ issued' = [issued EXCEPT ![now] = @ + 1]
    /\ UNCHANGED <<now, requests_made, started_counting, direct>>
    /\ UNCHANGED <<connVars, sinkVars, bucketVars, restVars>>

RouteNext ==
    \/ route_call
    \/ \E d \in Deadlines : route_wake(d)
    \/ \E r \in RouteResponses : update(RoutePath, r)
    \/ bucket_tick

\* ----------------------------------- the buckets of ratelimit.rs

\* A header as read_header sees it: its length in bytes and, when its text
\* parses as an i64 or an f64, the number.
Text(kind, v, len) == [kind |-> kind, v |-> v, len |-> len]

\* The headers given to read_header here: none, "3", a byte that is no digit,
\* and "-1".
NoHeader == Text("absent", 0, 0)
Garbled == Text("bad", 0, 1)
HeaderTexts == {NoHeader, Text("num", 3, 1), Garbled, Text("num", -1, 2)}

\* The leeway added to Retry-After, in milliseconds.
Leeway == 100

\* read_header: Ok(None), Ok(Some(v)) or Err.
read_header(h) ==
    IF h.kind = "absent" THEN [err |-> FALSE, some |-> FALSE, v |-> 0]
    ELSE IF h.len # 1 THEN [err |-> TRUE, some |-> FALSE, v |-> 0]
    ELSE IF h.kind = "bad" THEN [err |-> TRUE, some |-> FALSE, v |-> 0]
    ELSE [err |-> FALSE, some |-> TRUE, v |-> h.v]

\* RateLimit::try_post_update on bucket b: the bucket afterwards, whether it
\* returned Err, the bool it returned otherwise and the milliseconds slept.
try_post_update(b, r) ==
    LET h1 == read_header(r.reset)
        b1 == IF h1.some THEN [b EXCEPT !.reset = h1.v] ELSE b
        h2 == read_header(r.limit)
        b2 == IF h2.some THEN [b1 EXCEPT !.limit = h2.v] ELSE b1
        h3 == read_header(r.remaining)
        b3 == IF h3.some THEN [b2 EXCEPT !.remaining = h3.v] ELSE b2
        h4 == read_header(r.retry_after)
    IN IF h1.err THEN [bucket |-> b, err |-> TRUE, retry |-> FALSE, slept |-> 0]
       ELSE IF h2.err THEN [bucket |-> b1, err |-> TRUE, retry |-> FALSE, slept |-> 0]
       ELSE IF h3.err THEN [bucket |-> b2, err |-> TRUE, retry |-> FALSE, slept |-> 0]
       ELSE IF r.status = 429 /\ h4.err
       THEN [bucket |-> b3, err |-> TRUE, retry |-> FALSE, slept |-> 0]
       ELSE IF r.status = 429 /\ h4.some
       THEN [bucket |-> b3, err |-> FALSE, retry |-> TRUE, slept |-> h4.v + Leeway]
       ELSE [bucket |-> b3, err |-> FALSE, retry |-> FALSE, slept |-> 0]

\* RateLimit::post_update: an Err of try_post_update is logged and false is
\* returned.
post_update(b, r) ==
    LET t == try_post_update(b, r)
    IN [bucket |-> t.bucket, retry |-> ~t.err /\ t.retry, slept |-> t.slept]

\* RateLimits::post_update(url, response): the buckets afterwards and the
\* bool returned.
RateLimits_post_update(g, e, u, r) ==
    LET entry == IF e[u] = NoRateLimit THEN RateLimitDefault ELSE e[u]
        pg == post_update(g, r)
        pe == post_update(entry, r)
    IN IF IsGlobalLimit(r)
       THEN [global |-> pg.bucket, endpoints |-> e, retry |-> pg.retry, slept |-> pg.slept]
       ELSE [global |-> g, endpoints |-> [e EXCEPT ![u] = pe.bucket],
             retry |-> pe.retry, slept |-> pe.slept]

\* Whether one of the rate-limit headers of a response is no number.
Garbling(r) == Garbled \in {r.reset, r.limit, r.remaining}

\* The responses given to RateLimits::post_update on its own: a 200 and a
\* 429 with Retry-After: 3, each with or without a reset header and with the
\* remaining header in every form, or with a limit header that is no number,
\* or with no limit header.
LegacyResponse(reset, limit, remaining, retry_after, status, global) ==
    [reset |-> reset, limit |-> limit, remaining |-> remaining,
     retry_after |-> retry_after, status |-> status, global |-> global]

LegacyResponses ==
    {LegacyResponse(rst, l, rem, st[1], st[2], g) :
        rst \in {NoHeader, Text("num", 3, 1)},
        l \in {Text("num", 3, 1)},
        rem \in HeaderTexts,
        st \in {<<NoHeader, 200>>, <<Text("num", 3, 1), 429>>},
        g \in BOOLEAN}
    \cup {LegacyResponse(NoHeader, Garbled, Text("num", 3, 1), NoHeader, 200, g) :
        g \in BOOLEAN}
    \cup {LegacyResponse(Text("num", 3, 1), NoHeader, Text("num", 3, 1), NoHeader, 200, FALSE)}

\* A post_update from response r.
PostUpdated(u, r, result) ==
    [Upd("post_update", u, r.global, Garbling(r), result)
        EXCEPT !.at = IF ~r.global /\ r.reset.kind = "num" THEN r.reset.v ELSE -1,
               !.kinds = Kinds(r),
               !.limit = IF ~r.global /\ r.limit.kind = "num" THEN r.limit.v ELSE 0,
               !.remaining = IF ~r.global /\ r.remaining.kind = "num"
                             THEN r.remaining.v ELSE 0]

\* RateLimits::post_update(url, response), called on its own.
legacy_post_update(u) ==
    \E r \in LegacyResponses :
        LET p == RateLimits_post_update(lglobal, endpoints, u, r)
        IN /\ family = "legacy"
           /\ lglobal' = p.global
           /\ endpoints' = p.endpoints
           /\ upd' = PostUpdated(u, r, IF p.retry THEN "retry" ELSE "no retry")
           /\ UNCHANGED <<family, routes, nchecks>>
           /\ UNCHANGED <<connVars, sinkVars, rateVars, restVars>>

BucketNext ==
    \/ \E u \in Urls : bucket_check(u)
    \/ \E u \in Urls : bucket_update(u)
    \/ bucket_tick
    \/ \E u \in Urls : legacy_post_update(u)

\* ------------------------------------------- Discord::request (lib.rs)

\* What one `f().send().await` gives: a response, an error for which
\* is_connect() holds, or another transport error. A response has its status,
\* the headers post_update reads, and whether its body is a JSON object with
\* an unsigned retry_after.
Outcome(kind, status, limit, remaining, retry_after, global, body) ==
    [kind |-> kind, status |-> status, reset |-> NoHeader, limit |-> limit,
     remaining |-> remaining, retry_after |-> retry_after, global |-> global,
     body_retry_after |-> body]

ConnectError == Outcome("connect", 0, NoHeader, NoHeader, NoHeader, FALSE, FALSE)
OtherError == Outcome("error", 0, NoHeader, NoHeader, NoHeader, FALSE, FALSE)
NoOutcome == Outcome("none", 0, NoHeader, NoHeader, NoHeader, FALSE, FALSE)

\* The statuses a response has here.
Statuses == {200, 429, 500}

\* The Retry-After headers here: none, "3" and "65".
RetryAfterTexts == {NoHeader, Text("num", 3, 1), Text("num", 65, 2)}

Outcomes ==
    {ConnectError, OtherError} \cup
    {Outcome("response", st, l, NoHeader, ra, g, b) :
        st \in Statuses, l \in {NoHeader, Garbled}, ra \in RetryAfterTexts,
        g \in BOOLEAN, b \in BOOLEAN}

\* StatusCode::is_success.
is_success(status) == status \in 200..299

\* What Discord::request returns.
Returned(kind, status) == [kind |-> kind, status |-> status]
NotReturned == Returned("none", 0)

\* Error::from_response of a response that is no success.
from_response(r) ==
    IF r.status = 429 /\ r.body_retry_after
    THEN Returned("RateLimited", r.status)
    ELSE Returned("Status", r.status)

\* CheckStatus::check_status of what retry() returned.
check_status(r) ==
    IF r.kind # "response" THEN Returned("Reqwest", 0)
    ELSE IF ~is_success(r.status) THEN from_response(r)
    ELSE Returned("Ok", r.status)

RestInit ==
    /\ rpc = "idle"
    /\ rurl = "/a"
    /\ sends = 0
    /\ resp = NoOutcome
    /\ first = NoOutcome
    /\ resent = 0
    /\ elapsed = 0
    /\ rret = NotReturned
    /\ locked = "none"

\* The body of the async RateLimit::pre_check on bucket b at time t, when it
\* is run: the bucket afterwards and the milliseconds slept.
pre_check(b, t) ==
    IF b.limit = 0 THEN [bucket |-> b, slept |-> 0]
    ELSE IF b.reset - t < 0
    THEN [bucket |-> [b EXCEPT !.reset = @ + 3, !.remaining = b.limit], slept |-> 0]
    ELSE IF b.remaining <= 0
    THEN [bucket |-> b, slept |-> (b.reset - t) * 1000 + 900]
    ELSE [bucket |-> [b EXCEPT !.remaining = @ - 1], slept |-> 0]

\* RateLimits::pre_check(url) had it awaited the two futures: the global
\* bucket, then the bucket of the path when the path is a key.
RateLimits_pre_check_awaited(g, e, u, t) ==
    LET pg == pre_check(g, t)
        pe == pre_check(e[u], t)
    IN IF e[u] = NoRateLimit
       THEN [global |-> pg.bucket, endpoints |-> e, slept |-> pg.slept]
       ELSE [global |-> pg.bucket, endpoints |-> [e EXCEPT ![u] = pe.bucket],
             slept |-> pg.slept + pe.slept]

\* RateLimits::pre_check(url): it takes each lock, calls the async
\* RateLimit::pre_check and drops the future returned without polling it, so
\* that no bucket is read or written and nothing is slept.
RateLimits_pre_check(g, e, u, t) == [global |-> g, endpoints |-> e, slept |-> 0]

\* Discord::request is called: the pre-check, then on to its first retry().
req_begin(u) ==
    LET p == RateLimits_pre_check(lglobal, endpoints, u, now)
    IN /\ rpc = "idle"
       /\ rpc' = "retry1_first"
       /\ rurl' = u
       /\ lglobal' = p.global
       /\ endpoints' = p.endpoints
       /\ sends' = 0
       /\ resp' = NoOutcome
       /\ first' = NoOutcome
       /\ resent' = 0
       /\ elapsed' = p.slept
       /\ rret' = NotReturned
       /\ UNCHANGED locked
       /\ UNCHANGED <<family, routes, nchecks, upd>>
       /\ UNCHANGED <<connVars, sinkVars, rateVars>>

\* One `f().send().await` of retry(). After a connect error of its first
\* send retry() sends again; anything else is what retry() returns. What the
\* first retry() returns goes to post_update when it is a response and to
\* check_status when it is an error; what the second retry() returns is
\* returned by the call with map_err(Error::Reqwest), the post_update of its
\* response being a future that is never awaited.
req_send ==
    \E o \in Outcomes :
        /\ rpc \in {"retry1_first", "retry1_second", "retry2_first", "retry2_second"}
        /\ sends' = sends + 1
        /\ resent' = IF rpc \in {"retry2_first", "retry2_second"} THEN resent + 1 ELSE resent
        /\ resp' = o
        /\ IF o.kind = "connect" /\ rpc = "retry1_first"
           THEN rpc' = "retry1_second" /\ UNCHANGED rret
           ELSE IF o.kind = "connect" /\ rpc = "retry2_first"
           THEN rpc' = "retry2_second" /\ UNCHANGED rret
           ELSE IF rpc \in {"retry1_first", "retry1_second"}
           THEN IF o.kind = "response"
                THEN rpc' = "post_update" /\ UNCHANGED rret
                ELSE rpc' = "done" /\ rret' = check_status(o)
           ELSE /\ rpc' = "done"
                /\ rret' = IF o.kind = "response"
                           THEN Returned("Ok", o.status)
                           ELSE Returned("Reqwest", 0)
        /\ UNCHANGED <<rurl, first, elapsed, locked>>
        /\ UNCHANGED <<connVars, sinkVars, rateVars, bucketVars>>

\* The Mutex RateLimits::post_update locks for response r. The guard is a
\* temporary of the expression that ends in `.post_update(response).await`,
\* so it is held until that future completes, its sleep included.
LockOf(r) == IF IsGlobalLimit(r) THEN "global" ELSE "endpoints"

\* `self.rate_limits.post_update(url, response).await` on the response of
\* the first retry(): on true the call sleeps, the guard held, before it goes
\* to its second retry(); on false it returns check_status of the response.
req_post_update ==
    LET p == RateLimits_post_update(lglobal, endpoints, rurl, resp)
    IN /\ rpc = "post_update"
       /\ lglobal' = p.global
       /\ endpoints' = p.endpoints
       /\ upd' = PostUpdated(rurl, resp, IF p.retry THEN "retry" ELSE "no retry")
       /\ first' = resp
       /\ elapsed' = elapsed + p.slept
       /\ IF p.retry
          THEN rpc' = "sleeping" /\ locked' = LockOf(resp) /\ UNCHANGED rret
          ELSE rpc' = "done" /\ rret' = check_status(resp) /\ UNCHANGED locked
       /\ UNCHANGED <<rurl, sends, resp, resent>>
       /\ UNCHANGED <<family, routes, nchecks>>
       /\ UNCHANGED <<connVars, sinkVars, rateVars>>

\* The sleep of try_post_update is over: post_update returns true and the
\* guard is dropped.
req_wake ==
    /\ rpc = "sleeping"
    /\ rpc' = "retry2_first"
    /\ locked' = "none"
    /\ UNCHANGED <<rurl, sends, resp, first, resent, elapsed, rret>>
    /\ UNCHANGED <<connVars, sinkVars, rateVars, bucketVars>>

\* The responses another task gives to RateLimits::post_update: a 200 with
\* a limit header, with or without X-RateLimit-Global.
OtherResponses ==
    {LegacyResponse(NoHeader, Text("num", 3, 1), NoHeader, NoHeader, 200, g) : g \in BOOLEAN}

\* Another task calls RateLimits::post_update(u, r): it needs the Mutex of
\* the response and blocks while the call above holds it.
other_post_update(u, r) ==
    LET p == RateLimits_post_update(lglobal, endpoints, u, r)
    IN /\ locked # LockOf(r)
       /\ lglobal' = p.global
       /\ endpoints' = p.endpoints
       /\ upd' = PostUpdated(u, r, IF p.retry THEN "retry" ELSE "no retry")
       /\ UNCHANGED <<family, routes, nchecks>>
       /\ UNCHANGED <<connVars, sinkVars, rateVars, restVars>>

\* The caller has what the call returned.
req_done ==
    /\ rpc = "done"
    /\ rpc' = "idle"
    /\ UNCHANGED <<rurl, sends, resp, first, resent, elapsed, rret, locked>>
    /\ UNCHANGED <<connVars, sinkVars, rateVars, bucketVars>>

RestNext ==
    \/ \E u \in Urls : req_begin(u)
    \/ req_send
    \/ req_post_update
    \/ req_wake
    \/ \E u \in Urls, r \in OtherResponses : other_post_update(u, r)
    \/ req_done

\* ---------------------------------------------------------- specification

Init == ConnInit /\ SinkInit /\ RateInit /\ BucketInit /\ RestInit /\ family = "legacy"

\* The buckets of either implementation.
BucketStart ==
    /\ ConnInit /\ SinkInit /\ RateInit /\ BucketInit /\ RestInit
    /\ family \in {"rest", "legacy"}

Next ==
    \/ establish_connection
    \/ recv_event
    \/ resume
    \/ reconnect
    \/ drop
    \/ heartbeat
    \/ writer

Spec == Init /\ [][Next]_vars

SinkSpec == Init /\ [][SinkNext]_vars

RateSpec == Init /\ [][RateNext]_vars

BucketSpec == BucketStart /\ [][BucketNext]_vars

RestSpec == Init /\ [][RestNext]_vars

\* One call of Connection::connect with the tasks it spawns. The runtime
\* runs every spawned task that can take a step: each heartbeat task and
\* each writer task is scheduled weakly fairly.
ConnectNext ==
    \/ establish_connection
    \/ heartbeat
    \/ writer

TaskFairness ==
    \A w \in WsIds :
        /\ WF_vars(hb_tick(w) \/ hb_flushed(w) \/ hb_shutdown(w))
        /\ WF_vars(writer_write(w) \/ writer_exit(w))

ConnectSpec == Init /\ [][ConnectNext]_vars /\ TaskFairness

\* One route of ratelimit/rest.rs with the callers of check.
RouteStart ==
    /\ ConnInit /\ SinkInit /\ RateInit /\ BucketInit /\ RestInit
    /\ family = "rest"

RouteSpec == RouteStart /\ [][RouteNext]_vars

\* The connection up to the end of a resume: connect, recv_event and the
\* resume it starts, with the tasks of the websockets. The caller awaits the
\* resume, so the main task goes on reading for as long as the resume has a
\* frame to read.
ResumeNext ==
    \/ establish_connection
    \/ recv_event
    \/ resume
    \/ heartbeat
    \/ writer

ResumeSpec == Init /\ [][ResumeNext]_vars /\ WF_vars(resume)

\* ------------------------------------------------ claims on the connection

\* C1: within one session (the same Connection, no READY read) last_sequence
\* never decreases, whatever sequence numbers the dispatches processed by
\* recv_event and by resume carry.
C1_LastSequenceNeverDecreases ==
    [][(conn.id # 0 /\ conn'.id = conn.id /\ obs'.in.f.ev # "READY")
        => conn'.last_sequence >= conn.last_sequence]_vars

AliveHeartbeats == {h \in WsIds : HbAlive(h)}

\* C2: at every instant at most one heartbeat task is alive: a new one never
\* runs while the previous one has not terminated.
C2_AtMostOneHeartbeat == Cardinality(AliveHeartbeats) <= 1

\* C3: a Resume frame is sent only when session_id is Some and the failure is
\* not a close with code 4006; with session_id cleared, or on a close with
\* code 4006, the recovery is a reconnect, which sends Identify, never Resume.
C3_ResumeOnlyWithSession ==
    /\ obs.out.f.op = "Resume" =>
            /\ obs.out.f.sid = conn.session_id
            /\ conn.session_id # "None"
            /\ failure \in {"ErrWebSocket", "ErrClosed"}
    /\ pc \in {"resume_open", "resume_loop"} =>
            /\ conn.session_id # "None"
            /\ failure \in {"ErrWebSocket", "ErrClosed"}
    /\ (failure # "-" /\ (failure = "ErrClosed4006" \/ conn.session_id = "None")) =>
            /\ pc \in {"reconnect", "est_open", "est_hello", "est_ready", "est_flush",
                       "est_ready2", "rc_rest", "panicked"}
            /\ obs.out.f.op # "Resume"

C3_ResumeSent == obs.out.f.op = "Resume" /\ obs.out.ws = rw /\ pc = "resume_loop"

\* C4: the Identify is retried exactly once in a handshake: when the frame
\* after the second Identify is an InvalidateSession, establish_connection
\* returns Error::Protocol at once, and no third Identify is ever submitted.
C4_SecondInvalidateIsProtocolError ==
    /\ estIdents <= 2
    /\ obs.idents <= 2
    /\ (obs.in.at = "est_ready2" /\ obs.in.f.op = "InvalidateSession") =>
            /\ obs.est = "Protocol"
            /\ obs.idents = 2
            /\ pc # "est_flush"

C4_SecondInvalidate ==
    /\ obs.in.at = "est_ready2"
    /\ obs.in.f.op = "InvalidateSession"
    /\ obs.est = "Protocol"

\* C5: when a resume attempted after a transport error or a resumable close
\* fails, recv_event goes on to reconnect and the fallback never panics.
C5_FallbackNeverPanics ==
    ~ /\ pc = "panicked"
      /\ panicAt \in {"reconnect_take", "reconnect_expect"}
      /\ TryResume(conn.session_id, failure)
      /\ failure \in {"ErrWebSocket", "ErrClosed"}

Delivered(h, s) ==
    IF seqchan[h] # <<>> THEN seqchan[h][Len(seqchan[h])] >= s ELSE hbseq[h] >= s

\* C7: when a dispatch with sequence s is returned to the caller, s has been
\* placed in the sequence channel of the connection's heartbeat task, so that
\* the heartbeats sent after the return carry d >= s.
C7_SequenceDeliveredBeforeReturn ==
    (obs.ret.kind \in {"ready", "event"} /\ obs.in.f.op = "Dispatch" /\ HbAlive(conn.id))
        => Delivered(conn.id, obs.in.f.seq)

\* A step of the tasks spawned for connection w.
TaskStep(w) ==
    \/ hb_tick(w)
    \/ hb_flushed(w)
    \/ hb_shutdown(w)
    \/ writer_write(w)
    \/ writer_exit(w)

\* C8: for every Connection that is no longer used, dropped by the caller or
\* replaced by a reconnect, the heartbeat task and the writer task terminate:
\* until both have ended, one of them can still take a step.
C8_UnusedTasksTerminate ==
    \A w \in unused :
        \/ wst[w] = "done" /\ ~HbAlive(w)
        \/ ENABLED TaskStep(w)

\* C18: whenever recv_event has returned after a successful resume, exactly
\* one heartbeat task is alive for the connection and the connection holds
\* its shutdown handle.
C18_HeartbeatAfterResume ==
    obs.ret.via = "resume" =>
        /\ Cardinality(AliveHeartbeats) = 1
        /\ conn.shutdown_heartbeat # 0

\* C19: at every return of recv_event, session_id is Some when a READY has
\* been received since the most recent InvalidateSession: when a READY is
\* returned, also one that answers the re-identify after an InvalidateSession
\* read in steady state, session_id is Some.
C19_SessionAfterReady ==
    (obs.ret.kind \in {"ready", "event"} /\ obs.ret.ev = "READY")
        => conn.session_id # "None"

\* C20: on an inbound Reconnect (opcode 7) recv_event shuts the heartbeat
\* down, opens a new websocket, identifies on it (no Resume is sent) and
\* returns the READY; the connection is then the one the new handshake built.
C20_ReconnectReturnsReady ==
    /\ ~(pc = "panicked" /\ failure = "Reconnect")
    /\ (failure = "Reconnect" => obs.out.f.op # "Resume")
    /\ (obs.ret.via = "reconnect" /\ obs.ret.kind = "event") =>
            /\ obs.ret.ev = "READY"
            /\ conn.id = wsCount
            /\ conn.receiver = wsCount
            /\ conn.shutdown_heartbeat = wsCount
            /\ conn.last_sequence = obs.in.f.seq
            /\ conn.session_id = obs.in.f.sid

\* C21: a handshake succeeds exactly when a READY dispatch is the frame read
\* after the Hello, directly or after one InvalidateSession; the connection
\* then holds the READY's session id and sequence and the READY is returned;
\* any other frame in that position yields a Protocol error.
C21_HandshakeSucceedsOnReady ==
    LET f == obs.in.f
        ready == f.op = "Dispatch" /\ f.ev = "READY"
    IN /\ obs.est = "ok" =>
            /\ obs.in.at \in {"est_ready", "est_ready2"}
            /\ ready
            /\ conn.session_id = f.sid
            /\ conn.last_sequence = f.seq
            /\ obs.ret.ev = "READY" /\ obs.ret.sid = f.sid
            /\ obs.ret.kind \in {"ready", "event"}
       /\ (obs.in.at \in {"est_ready", "est_ready2"} /\ ready) => obs.est = "ok"
       /\ (/\ obs.in.at = "est_ready"
           /\ ~ready
           /\ f.op # "InvalidateSession"
           /\ f \notin ReadErrors) => obs.est = "Protocol"
       /\ (obs.in.at = "est_ready2" /\ ~ready /\ f \notin ReadErrors) => obs.est = "Protocol"

\* A handshake has succeeded on the READY that followed one InvalidateSession.
C21_ReadyAfterInvalidate ==
    /\ obs.est = "ok"
    /\ obs.in.at = "est_ready2"
    /\ obs.idents = 2
    /\ conn.session_id = "S2"
    /\ conn.last_sequence = 1

\* C23: an Identify is written only on a websocket whose Hello has been
\* received and whose heartbeat task has been spawned; when the first inbound
\* frame is no Hello, the handshake ends with a Protocol error, no heartbeat
\* task has been spawned and no Identify has been written.
C23_IdentifyAfterHello ==
    /\ (obs.out.f.op = "Identify" /\ obs.out.ws # 0) => hbst[obs.out.ws] # "none"
    /\ (obs.in.at = "est_hello" /\ obs.in.f.op # "Hello" /\ obs.in.f \notin ReadErrors) =>
            /\ obs.est = "Protocol"
            /\ hbst[obs.in.ws] = "none"
            /\ obs.idents = 0

\* C24: a reconnect makes its handshake attempts in order, each after one more
\* one-second sleep: a second one on the known URL only after the first
\* failed, the REST fetch only after the second failed, a third one only
\* after the fetch; the first success is returned at once, and an error is
\* returned exactly when the fetch or the third attempt fails.
C24_ReconnectAttempts ==
    [][LET failed == obs'.est \notin {"-", "ok"}
       IN /\ (pc' = "est_open" /\ ecaller' = "reconnect") =>
                /\ attempt' \in 1..3
                /\ naps' = attempt'
                /\ BaseUrl' = IF attempt' = 3 THEN 0 ELSE gurl'
          /\ (attempt' = 2 /\ attempt # 2) => (attempt = 1 /\ failed)
          /\ (pc' = "rc_rest" /\ pc # "rc_rest") =>
                (attempt = 2 /\ ecaller = "reconnect" /\ failed)
          /\ (pc' = "est_open" /\ attempt' = 3 /\ pc # "est_open") => pc = "rc_rest"
          /\ (ecaller = "reconnect" /\ obs'.est = "ok") =>
                /\ obs'.ret.kind = "event" /\ obs'.ret.via = "reconnect"
                /\ pc' = "idle"
          /\ (obs'.ret.via = "reconnect" /\ obs'.ret.kind = "err") =>
                (attempt = 3 /\ (pc = "rc_rest" \/ failed))
          /\ (ecaller = "reconnect" /\ attempt = 3 /\ failed) =>
                (obs'.ret.via = "reconnect" /\ obs'.ret.kind = "err")
          /\ (ecaller = "reconnect" /\ attempt \in {1, 2} /\ failed) => obs'.ret = NoRet]_vars

\* The third attempt of a reconnect has opened its websocket, on the URL
\* fetched over REST, after three sleeps.
C24_ThirdAttemptOpened ==
    /\ pc = "est_hello"
    /\ ecaller = "reconnect"
    /\ attempt = 3
    /\ naps = 3
    /\ opened = 1

\* C25: every websocket the connection opens uses the gateway base URL
\* followed by exactly one `?v=` suffix.
C25_OneVersionSuffix == opened # 0 => opened = 1

\* C26: on an inbound Heartbeat in steady state recv_event submits one
\* heartbeat frame with d = the connection's last_sequence through the shared
\* sender, returns no event for it and leaves the connection as it was.
C26_HeartbeatAnsweredAtOnce ==
    [][(obs'.in.at = "recv_event" /\ obs'.in.f.op = "Heartbeat") =>
          /\ obs'.ret = NoRet
          /\ conn' = conn
          /\ obs'.out.f = HeartbeatFrame(conn.last_sequence)
          /\ chan'[conn.id] =
                Append(chan[conn.id],
                       [f |-> HeartbeatFrame(conn.last_sequence), from |-> "main"])]_vars

\* C27: once the shutdown signal of a heartbeat task has been sent, or its
\* sender dropped, the task submits no further heartbeat frame.
C27_NoHeartbeatAfterShutdown ==
    [][\A h \in WsIds :
          (shutdown[h] # "open" /\ hbst[h] = "select") =>
              ~(/\ Len(chan'[h]) > Len(chan[h])
                /\ chan'[h][Len(chan'[h])].from = "hb")]_vars

\* The handshake on websocket w has failed after its heartbeat task was
\* spawned: the shutdown sender is dropped and w is the websocket of no
\* Connection, used or replaced.
FailedAfterSpawn(w) ==
    /\ hbst[w] # "none"
    /\ shutdown[w] = "dropped"
    /\ conn.id # w
    /\ w \notin unused

\* C38: when establish_connection fails after it has spawned the heartbeat
\* task, that task and the writer task of the attempt both terminate in the
\* end.
C38_FailedHandshakeTasksEnd ==
    \A w \in WsIds : FailedAfterSpawn(w) ~> (wst[w] = "done" /\ ~HbAlive(w))

\* connect() has returned an error of a handshake that had spawned its tasks
\* on websocket 1, and both tasks have ended.
C38_TasksEnded ==
    /\ pc = "failed"
    /\ FailedAfterSpawn(1)
    /\ wst[1] = "done"
    /\ hbst[1] \in {"done", "panicked"}

\* C39: every resume attempt terminates: whatever frames arrive on the new
\* websocket, the loop of resume returns after finitely many of them.
C39_ResumeReturns == (pc = "resume_loop") ~> (pc # "resume_loop")

\* ------------------------------------------------ claims on the SharedSink

Pos(q, x) == CHOOSE i \in 1..Len(q) : q[i] = x

\* C9: the items sent through one handle are written to the sink in the order
\* they were sent, each one whole, and the items of different clones in the
\* order in which they entered the channel.
C9_WrittenInSubmissionOrder ==
    /\ \A i \in 1..Len(written) : \E j \in 1..Len(submitted) : submitted[j] = written[i]
    /\ \A i, j \in 1..Len(written) :
            i < j => Pos(submitted, written[i]) < Pos(submitted, written[j])
    /\ \A i, j \in 1..Len(written) :
            (i < j /\ written[i].from = written[j].from)
                => written[i].f.seq < written[j].f.seq

C9_InterleavedClones ==
    \E i, j, k \in 1..Len(written) :
        /\ i < j
        /\ j < k
        /\ written[i].from = written[k].from
        /\ written[i].from # written[j].from

\* C28: a flush on a handle returns Ok only when every frame submitted through
\* that handle has been written successfully, returns an error only when the
\* sink reported one for a frame of that handle, and otherwise is pending.
C28_FlushConfirmsOwnFrames ==
    LET mine == SentBy(flushed.by)
        sent(i) == \E j \in 1..Len(written) : written[j] = submitted[i]
        failed(i) == i < HeadSlot /\ ~sent(i)
    IN /\ flushed.result \in {"none", "Pending", "Ok", "Err"}
       /\ flushed.result = "Ok" => \A i \in mine : sent(i)
       /\ flushed.result = "Err" => \E i \in mine : failed(i)
       /\ flushed.result = "Pending" => \E i \in mine : i >= HeadSlot

\* C29: once close has been called on a handle and the writer task has
\* written every frame queued, the writer task exits, whatever clones of the
\* handle are alive.
C29_WriterExitsAfterClose ==
    (sclosed # {} /\ swst = "run" /\ sq = <<>>) => ENABLED sink_exit

\* C35: a flush of a handle, each of whose frames taken by the writer so far
\* the sink has written, ends with Ok or is pending, however many sends and
\* flushes the handle has made before: no slot that has yielded its value is
\* polled again.
C35_SuccessiveSendsSucceed ==
    LET mine == SentBy(flushed.by)
        sent(i) == \E j \in 1..Len(written) : written[j] = submitted[i]
    IN (flushed.result # "none" /\ \A i \in mine : i < HeadSlot => sent(i))
          => /\ flushed.result \in {"Ok", "Pending"}
             /\ (\A i \in mine : i < HeadSlot) => flushed.result = "Ok"

\* ---------------------------------------------- claims on the rate limiter

InWindow == LET RECURSIVE Sum(_)
                Sum(i) == IF i = 0 THEN 0 ELSE direct[i] + Sum(i - 1)
            IN Sum(Second)

\* C10: the requests issued in any one-second window never exceed the global
\* limit, the callers released from a sleep at the window boundary not
\* counted.
C10_WindowWithinGlobalLimit == InWindow <= GlobalLimit

\* ------------------------------------------- claims on the route buckets

\* C11: after any pre-check on a route bucket whose remaining was >= 0,
\* whether the pre-check lets the caller proceed or parks it, and also when
\* the bucket is exhausted and checked again, the bucket's remaining is >= 0.
C11_RemainingAfterPreCheck ==
    [][(upd'.op = "check" /\ upd'.result # "panic" /\ routes[upd'.url].remaining >= 0)
          => routes'[upd'.url].remaining >= 0]_vars

\* C12: a post-update from a response carrying X-RateLimit-Global leaves every
\* route bucket and the set of route keys unchanged; one from a response
\* without that header leaves the global bucket and the bucket of every
\* other route unchanged.
C12_PostUpdateFrame ==
    [][upd'.op \in {"update", "post_update"} =>
          IF upd'.global
          THEN routes' = routes /\ endpoints' = endpoints
          ELSE /\ \A v \in Urls \ {upd'.url} :
                      routes'[v] = routes[v] /\ endpoints'[v] = endpoints[v]
               /\ lglobal' = lglobal
               /\ requests_made' = requests_made
               /\ started_counting' = started_counting]_vars

\* A response with the header has just updated the global bucket while one
\* route has a bucket updated before and the other route is no key.
C12_GlobalAfterRoute ==
    /\ upd.op = "update" /\ upd.global /\ upd.result = "ok"
    /\ requests_made = GlobalLimit
    /\ routes["/a"] # NoCounter /\ routes["/a"].limit = U32(0, 2)
    /\ routes["/b"] = NoCounter

\* The bucket of a path in ratelimit.rs, a path that is no key having none.
Bucket(e, u) == IF e[u] = NoRateLimit THEN RateLimitDefault ELSE e[u]

\* C16: when a rate-limit header of the response is no number, the
\* post-update raises no error, reports "no retry" and leaves every field of
\* the global bucket and of the route's bucket as it was.
C16_MalformedHeaderLeavesBuckets ==
    [][(upd'.op \in {"update", "post_update"} /\ upd'.malformed) =>
          /\ upd'.result \in {"no retry", "ok"}
          /\ routes' = routes
          /\ requests_made' = requests_made
          /\ started_counting' = started_counting
          /\ lglobal' = lglobal
          /\ Bucket(endpoints', upd'.url) = Bucket(endpoints, upd'.url)]_vars

\* C17: after a post-update that accepted the headers of the response, the
\* remaining and the limit of the route's bucket are >= 0.
C17_BudgetNeverNegative ==
    /\ (upd.op = "update" /\ upd.result = "ok" /\ ~upd.global) =>
           /\ routes[upd.url].remaining >= 0
           /\ routes[upd.url].limit.hi >= 0 /\ routes[upd.url].limit.lo >= 0
    /\ (upd.op = "post_update" /\ ~upd.global) =>
           /\ endpoints[upd.url].remaining >= 0
           /\ endpoints[upd.url].limit >= 0

\* C22: an update from a response that carries X-RateLimit-Global and the
\* reset instant R leaves the global bucket saturated (requests_made = limit,
\* started_counting = R), and a check on any path made while the bucket is
\* saturated and before its started_counting returns a sleep that lasts at
\* least to that instant.
C22_GlobalLimitSaturates ==
    [][/\ (upd'.op = "update" /\ upd'.global /\ upd'.at >= 0)
            => /\ requests_made' = GlobalLimit
               /\ started_counting' = upd'.at
       /\ (upd'.op = "check" /\ requests_made >= GlobalLimit /\ now < started_counting)
            => /\ upd'.result = "sleep"
               /\ upd'.at >= started_counting
               /\ UNCHANGED routes]_vars

\* C30: after an update has set a path's counter to remaining = k with a
\* window that ends in the future, a check on that path that the global
\* bucket lets through proceeds while k >= 1, each such check taking one from
\* k, and returns a sleep lasting at least to the window's end once k <= 0.
C30_RemainingChecksProceed ==
    [][\A u \in Urls :
        (/\ upd'.op = "check"
         /\ upd'.url = u
         /\ routes[u].remaining > MinI32
         /\ increment_and_check(requests_made, started_counting, now).ok
         /\ routes[u] # NoCounter
         /\ now < routes[u].window)
        => IF routes[u].remaining >= 1
           THEN /\ upd'.result = "none"
                /\ routes'[u].remaining = routes[u].remaining - 1
           ELSE /\ upd'.result = "sleep"
                /\ upd'.at >= routes[u].window]_vars

\* C31: after a post-update from a response without X-RateLimit-Global whose
\* three headers are the numbers L, M and T, the route's bucket is exactly
\* (limit L, remaining M, reset T), whatever it was before.
C31_RouteBucketResynced ==
    [][/\ (upd'.op = "update" /\ WellFormed(upd')) =>
            /\ upd'.result = "ok"
            /\ routes'[upd'.url].limit = upd'.limit32
            /\ routes'[upd'.url].remaining >= 0
            /\ U32(0, routes'[upd'.url].remaining) = upd'.remaining32
            /\ routes'[upd'.url].window = upd'.at
       /\ (upd'.op = "post_update" /\ WellFormed(upd')) =>
            endpoints'[upd'.url] =
                [reset |-> upd'.at, limit |-> upd'.limit, remaining |-> upd'.remaining]]_vars

\* Whether a response has seeded the bucket of path u: in ratelimit.rs the
\* bucket has a limit (pre_check takes limit = 0 as uninitialized), in
\* ratelimit/rest.rs the path is a key whose counter is not the default one.
Seeded(u) ==
    IF family = "legacy"
    THEN endpoints[u] # NoRateLimit /\ endpoints[u].limit # 0
    ELSE routes[u] # NoCounter /\ routes[u].limit # U32(0, RouteLimit)

\* C32: a post-update from a response without X-RateLimit-Limit, the other
\* two headers being numbers, changes no bucket and is an error when no
\* response has seeded the route's bucket, and applies the remaining and the
\* reset to the bucket without an error when one has.
C32_MissingLimitHeader ==
    [][\A u \in Urls :
        (upd'.op \in {"update", "post_update"} /\ upd'.url = u /\ LacksLimit(upd')) =>
            IF Seeded(u)
            THEN IF upd'.op = "update"
                 THEN /\ upd'.result = "ok"
                      /\ routes'[u].limit = routes[u].limit
                      /\ routes'[u].window = upd'.at
                      /\ upd'.remaining32 = U32(0, routes'[u].remaining)
                 ELSE endpoints'[u] = [reset |-> upd'.at, limit |-> endpoints[u].limit,
                                       remaining |-> upd'.remaining]
            ELSE /\ upd'.op = "update" => upd'.result = "err"
                 /\ routes' = routes
                 /\ endpoints' = endpoints]_vars

\* C36: a check never panics: the sleep it computes from the instant the
\* counter returned and its own reading of the clock is not negative.
C36_CheckNeverPanics ==
    (upd.op = "check" /\ upd.at >= 0) => (upd.result = "sleep" /\ upd.at - now >= 0)

\* C37: after every step of the limiter 0 <= requests_made <= limit, and a
\* check that the global bucket turns away leaves every route's counter as it
\* was.
C37_GlobalCountWithinLimit ==
    [][/\ requests_made' >= 0
       /\ requests_made' <= GlobalLimit
       /\ (upd'.op = "check" /\ ~increment_and_check(requests_made, started_counting, now).ok)
            => routes' = routes]_vars

\* The requests issued on RoutePath in the second that starts at tick t.
IssuedFrom(t) ==
    LET RECURSIVE Sum(_)
        Sum(i) == IF i >= t + Second \/ i > MaxTick THEN 0 ELSE issued[i] + Sum(i + 1)
    IN Sum(t)

\* C40: when several callers were parked on one exhausted route and are
\* released at its reset, the requests issued on the route in the window
\* that starts at the reset, theirs included, never exceed the bucket's
\* limit.
C40_ReleasedCallersCharged ==
    \A d \in 0..MaxTick :
        (woken[d] >= 2 /\ routes[RoutePath] # NoCounter /\ routes[RoutePath].limit.hi = 0)
            => IssuedFrom(d) <= routes[RoutePath].limit.lo

\* ------------------------------------------ claims on Discord::request

\* C13: when the response was a 429 carrying Retry-After: D, the call has
\* sent the request again exactly once when it returns, and has slept
\* D + 100 ms before doing so.
C13_OneResendAfterRetryAfter ==
    (/\ rpc = "done"
     /\ first.kind = "response"
     /\ first.status = 429
     /\ first.retry_after.kind # "absent")
        => /\ resent = 1
           /\ elapsed >= first.retry_after.v + Leeway

\* C14: one call of Discord::request sends the HTTP request at most twice.
C14_AtMostTwoSends == sends <= 2

\* C15: the call returns Ok(response) only for a 2xx response; a response
\* that is none and ends the call is returned as Err(RateLimited) when it is
\* a 429 whose body has an unsigned retry_after and as Err(Status) otherwise.
C15_OkOnlyForSuccess ==
    (rpc = "done" /\ resp.kind = "response") =>
        IF is_success(resp.status) THEN rret = Returned("Ok", resp.status)
        ELSE IF resp.status = 429 /\ resp.body_retry_after
        THEN rret = Returned("RateLimited", resp.status)
        ELSE rret = Returned("Status", resp.status)

\* C33: when Discord::request goes on to send its request, the pre-check of
\* its route has run to completion: the global bucket and the route's bucket
\* are as the pre-check leaves them and the sleep it requires has elapsed.
C33_RequestAfterPreCheck ==
    [][(rpc = "idle" /\ rpc' = "retry1_first") =>
          LET p == RateLimits_pre_check_awaited(lglobal, endpoints, rurl', now)
          IN /\ lglobal' = p.global
             /\ endpoints' = p.endpoints
             /\ elapsed' >= p.slept]_vars

\* C34: while the call sleeps after a 429, another task's post-update on a
\* different route can take the lock it needs and complete.
C34_NoSleepUnderLock ==
    rpc = "sleeping" =>
        \A u \in Urls \ {rurl} : \A r \in OtherResponses : ENABLED other_post_update(u, r)

====
